---- MODULE Spec2Model ----
(***************************************************************************)
(* Model of the Round Table operator (dapperdivers/roundtable): the Chain  *)
(* (Pipeline) controller's reconcile loop, its DAG validation, its cron    *)
(* trigger and the result stream it polls.                                 *)
(*                                                                         *)
(* Time is an integer clock `now`; one unit stands for one second of the   *)
(* source's wall clock, and the modelled timeouts are small numbers of     *)
(* units.  A nil *metav1.Time is NoTime.                                   *)
(***************************************************************************)
EXTENDS Integers, Sequences, FiniteSets, TLC

\* ---------------------------------------------------------------- bounds
\* Largest value of the clock.
MaxTime == 3
\* Number of runs (cron fires and Idle->Running writes) of one behaviour.
MaxRuns == 2
\* Largest number of task messages on the bus (a pass that would exceed it is
\* not taken).
MaxBus == 4
\* Longest step list given to validateDAG in SpecDAG.
MaxDagSteps == 3
\* Longest dependsOn list of a step given to validateDAG in SpecDAG.
MaxDeps == 2
\* Largest metadata.generation (the number of spec edits plus one).
MaxGeneration == 2

\* An object that was never created: the API server numbers the generations
\* of an object from 1.
NeverCreated(obj) == [obj EXCEPT !.exists = FALSE, !.generation = 0]

Created(obj) == obj.generation > 0

\* nil for a *metav1.Time field
NoTime == -1

\* ------------------------------------------- values of the modelled chains
\* spec.timeout of the modelled chains (seconds)
ChainTimeout == 2
\* step.timeout of the modelled steps (seconds)
StepTimeout == 1
\* retryPolicy.maxRetries / backoffSeconds of the chains that set a policy
MaxRetries == 2
BackoffSeconds == 1

VARIABLES
    spec,        \* chain.Spec
    meta,        \* chain.ObjectMeta: exists, deletionTimestamp, finalizer, generation
    status,      \* chain.Status as persisted in the cluster API
    knights,     \* names of the Knight resources that exist in the namespace
    bus,         \* task messages published on fleet-a.tasks.<domain>.<knight>, in order
    results,     \* per step: messages retained on fleet-a.results.chain-<chain>-<step>.*
    cronEntries, \* r.cronEntries restricted to this chain's key
    now,         \* wall clock
    runId,       \* number of runs started so far (history)
    last,        \* what the last operation did (history)
    retriedAt,   \* per step: when its last failed attempt completed and was reset (history)
    dagSteps,    \* SpecDAG: the step list handed to validateDAG
    dagErr,      \* SpecDAG: the error validateDAG returned ("unset" before the call)
    mission,     \* the Mission resource: metadata, spec and persisted status
    mctl,        \* the Mission controller: position in its pass, writes of the pass
    mknights,    \* the Knight resources a Mission refers to: exists, phase, ready
    mchains,     \* phase of the Chain resources a Mission refers to ("absent": none)
    mbus,        \* briefing envelopes and briefing tasks published, in order
    mlast,       \* what the last Mission operation did (history)
    knight,      \* the Knight resource: metadata, spec and persisted status
    kchildren,   \* the ConfigMap, PVC and Deployment the Knight owns
    klast,       \* what the last Knight operation did (history)
    fleet,       \* the RoundTable resource: metadata, spec and persisted status
    fstreams,    \* the JetStream streams that exist
    peer,        \* another Knight of the RoundTable's namespace
    flast        \* what the last RoundTable operation did (history)

missionVars == <<mission, mctl, mknights, mchains, mbus, mlast>>

\* The variables of the resource kinds other than Chain.
tableVars == <<knight, kchildren, klast, fleet, fstreams, peer, flast>>

kindVars == <<missionVars, tableVars>>

vars == <<spec, meta, status, knights, bus, results, cronEntries, now, runId, last,
          retriedAt, dagSteps, dagErr, kindVars>>

chainVars == <<spec, meta, status, knights, bus, results, cronEntries, now, runId, last,
               retriedAt>>

\* ------------------------------------------------------------ validateDAG
StepNames == {"a", "b", "c"}
UnknownName == "zz"

RECURSIVE SeqsUpTo(_, _)
SeqsUpTo(S, n) ==
    IF n = 0 THEN {<<>>}
    ELSE LET shorter == SeqsUpTo(S, n - 1)
         IN  shorter \cup {Append(q, x) : q \in shorter, x \in S}

NamesOf(steps) == {steps[i].name : i \in 1..Len(steps)}

\* The (step, dependency) pairs in the order the nested loops over
\* chain.Spec.Steps and s.DependsOn visit them.
RECURSIVE EdgesFrom(_, _)
EdgesFrom(steps, i) ==
    IF i > Len(steps) THEN <<>>
    ELSE [j \in 1..Len(steps[i].dependsOn) |-> <<steps[i].name, steps[i].dependsOn[j]>>]
         \o EdgesFrom(steps, i + 1)

\* inDegree after the two loops of lines 213-222: one entry per step NAME,
\* incremented once per dependsOn entry of every step carrying that name.
InDegree(steps) ==
    LET edges == EdgesFrom(steps, 1)
    IN  [n \in NamesOf(steps) |->
            Cardinality({k \in 1..Len(edges) : edges[k][1] = n})]

\* The queue of lines 224-229.  Go ranges over the map in an unspecified order;
\* the number of nodes drained does not depend on it.
RECURSIVE SetToSeq(_)
SetToSeq(S) ==
    IF S = {} THEN <<>>
    ELSE LET x == CHOOSE y \in S : TRUE IN <<x>> \o SetToSeq(S \ {x})

\* The inner loops of lines 238-247 for one drained node.
RECURSIVE Relax(_, _, _, _)
Relax(edges, node, inDeg, queue) ==
    IF edges = <<>> THEN [inDegree |-> inDeg, queue |-> queue]
    ELSE LET e == Head(edges)
         IN  IF e[2] = node
             THEN LET d2 == [inDeg EXCEPT ![e[1]] = @ - 1]
                  IN  Relax(Tail(edges), node, d2,
                            IF d2[e[1]] = 0 THEN Append(queue, e[1]) ELSE queue)
             ELSE Relax(Tail(edges), node, inDeg, queue)

\* The drain loop of lines 231-248; the value is `visited`.
RECURSIVE Kahn(_, _, _, _)
Kahn(edges, queue, inDeg, visited) ==
    IF queue = <<>> THEN visited
    ELSE LET r == Relax(edges, Head(queue), inDeg, Tail(queue))
         IN  Kahn(edges, r.queue, r.inDegree, visited + 1)

HasUnknownDep(steps) ==
    \E k \in 1..Len(EdgesFrom(steps, 1)) : EdgesFrom(steps, 1)[k][2] \notin NamesOf(steps)

\* validateDAG: "" for nil, else the text the error contains.
validateDAG(steps) ==
    IF HasUnknownDep(steps) THEN "unknown step"
    ELSE LET inDeg == InDegree(steps)
             queue == SetToSeq({n \in NamesOf(steps) : inDeg[n] = 0})
             visited == Kahn(EdgesFrom(steps, 1), queue, inDeg, 0)
         IN  IF visited # Len(steps) THEN "cycle" ELSE ""


\* ------------------------------------------------------- chain resources
ChainKey == "default/test-chain"
Galahad == "galahad"
Ghost == "nonexistent-knight"
KnightNames == {Galahad}

\* A task string is a sequence of parts: literal text, or a template action
\* ("{{ ... }}"): .Input, a step's Output or Error, or an action that does not
\* parse.
Lit(s) == [kind |-> "lit", arg |-> s]
TplInput == [kind |-> "input", arg |-> ""]
TplOutput(n) == [kind |-> "output", arg |-> n]
TplError(n) == [kind |-> "error", arg |-> n]
TplBad == [kind |-> "bad", arg |-> ""]

Step(n, deps, cof, task, k) ==
    [name |-> n, knightRef |-> k, task |-> task, dependsOn |-> deps,
     timeout |-> StepTimeout, continueOnFailure |-> cof]

NoRetryPolicy == [set |-> FALSE, maxRetries |-> 0, backoffSeconds |-> 0]
RetryPolicy == [set |-> TRUE, maxRetries |-> MaxRetries, backoffSeconds |-> BackoffSeconds]

MkSpec(steps, sched, rp) ==
    [steps |-> steps, timeout |-> ChainTimeout, schedule |-> sched, input |-> "seed",
     suspended |-> FALSE, retryPolicy |-> rp]

\* The chains of the model: the scenarios of the specification and of the tests.
OneStepRetry ==
    MkSpec(<<Step("a", <<>>, FALSE, <<Lit("scan")>>, Galahad)>>, "", RetryPolicy)
TwoStepCron ==
    MkSpec(<<Step("a", <<>>, FALSE, <<Lit("task-a")>>, Galahad),
             Step("b", <<"a">>, FALSE, <<Lit("consume: "), TplInput, TplOutput("a")>>, Galahad)>>,
           "@every 1m", NoRetryPolicy)
ContinueOnFailure ==
    MkSpec(<<Step("a", <<>>, TRUE, <<TplBad>>, Galahad),
             Step("b", <<>>, TRUE, <<Lit("task-b")>>, Galahad),
             Step("c", <<"a", "b">>, FALSE, <<Lit("after: "), TplError("a")>>, Galahad)>>,
           "", NoRetryPolicy)
FanIn ==
    MkSpec(<<Step("c", <<"a", "b">>, FALSE, <<Lit("task-c")>>, Galahad),
             Step("a", <<>>, FALSE, <<Lit("task-a")>>, Galahad),
             Step("b", <<>>, FALSE, <<Lit("task-b")>>, Galahad)>>,
           "", NoRetryPolicy)
Cyclic ==
    MkSpec(<<Step("a", <<"b">>, FALSE, <<Lit("task-a")>>, Galahad),
             Step("b", <<"a">>, FALSE, <<Lit("task-b")>>, Galahad)>>,
           "@every 1m", NoRetryPolicy)
UnknownDep ==
    MkSpec(<<Step("a", <<UnknownName>>, FALSE, <<Lit("task-a")>>, Galahad)>>,
           "", NoRetryPolicy)
MissingKnight ==
    MkSpec(<<Step("a", <<>>, FALSE, <<Lit("scan")>>, Ghost)>>, "", NoRetryPolicy)

ChainSpecs ==
    {OneStepRetry, TwoStepCron, ContinueOnFailure, FanIn, Cyclic, UnknownDep, MissingKnight}

NewStepStatus(n) ==
    [name |-> n, phase |-> "Pending", startedAt |-> NoTime, completedAt |-> NoTime,
     output |-> "", error |-> "", retries |-> 0]

initStepStatuses(steps) == [i \in 1..Len(steps) |-> NewStepStatus(steps[i].name)]

EmptyStatus ==
    [phase |-> "", stepStatuses |-> <<>>, startedAt |-> NoTime, completedAt |-> NoTime,
     runsCompleted |-> 0, runsFailed |-> 0, lastScheduledAt |-> NoTime,
     observedGeneration |-> 0, valid |-> "", complete |-> ""]

NoLast == [op |-> "env", branch |-> "", polled |-> {}, published |-> {}]

\* statusMap / specMap: the index of the entry a name maps to (the last one
\* carrying it), 0 for a missing key (a nil pointer).
LastIdx(seq, n) ==
    LET hits == {i \in 1..Len(seq) : seq[i].name = n}
    IN  IF hits = {} THEN 0 ELSE CHOOSE i \in hits : \A j \in hits : j <= i

validateKnightRefs(sp, ks) == \A i \in 1..Len(sp.steps) : sp.steps[i].knightRef \in ks


\* ------------------------------------------------------------ pollResult
NoMsg == [taskId |-> 0, output |-> "", error |-> ""]

\* pollResult: a fresh ordered consumer on the step's result subject delivers
\* from the first message retained there; `hit` says whether NextMsg returned
\* within its 500 ms (otherwise ErrTimeout, or an error: no result).
pollResult(res, stepName, hit) ==
    IF hit /\ stepName \in DOMAIN res /\ Len(res[stepName]) > 0
    THEN Head(res[stepName])
    ELSE NoMsg

\* Whether the pass polls for this step status: Running and not timed out.
StepTimedOut(sp, ss, t) ==
    LET k == LastIdx(sp.steps, ss.name)
    IN  /\ ss.phase = "Running"
        /\ ss.startedAt # NoTime
        /\ k # 0
        /\ t - ss.startedAt > sp.steps[k].timeout

\* MayRetry with <= for <: one retry too many.
MayRetryOffByOne(sp, ss) == sp.retryPolicy.set /\ ss.retries <= sp.retryPolicy.maxRetries

\* The retry decision of line 335.
MayRetry(sp, ss) == sp.retryPolicy.set /\ ss.retries < sp.retryPolicy.maxRetries

\* PollStep with a step timeout handled like an error result: retried while
\* the policy allows.
PollStepRetryingTimeout(sp, ss, msg, t) ==
    IF ss.phase # "Running" THEN ss
    ELSE IF StepTimedOut(sp, ss, t) \/ (msg # NoMsg /\ msg.error # "")
    THEN IF MayRetry(sp, ss)
         THEN [ss EXCEPT !.retries = @ + 1, !.phase = "Pending",
                         !.completedAt = NoTime, !.error = ""]
         ELSE [ss EXCEPT !.phase = "Failed", !.completedAt = t,
                         !.error = IF StepTimedOut(sp, ss, t) THEN "step timed out"
                                   ELSE msg.error]
    ELSE IF msg = NoMsg THEN ss
    ELSE [ss EXCEPT !.phase = "Succeeded", !.output = msg.output, !.completedAt = t]

\* One iteration of the loop over chain.Status.StepStatuses (lines 305-348).
PollStep(sp, ss, msg, t) ==
    IF ss.phase # "Running" THEN ss
    ELSE IF StepTimedOut(sp, ss, t)
    THEN [ss EXCEPT !.phase = "Failed", !.error = "step timed out", !.completedAt = t]
    ELSE IF msg = NoMsg THEN ss
    ELSE IF msg.error # ""
    THEN IF MayRetry(sp, ss)
         THEN [ss EXCEPT !.retries = @ + 1, !.phase = "Pending",
                         !.completedAt = NoTime, !.error = ""]
         ELSE [ss EXCEPT !.phase = "Failed", !.error = msg.error, !.completedAt = t]
    ELSE [ss EXCEPT !.phase = "Succeeded", !.output = msg.output, !.completedAt = t]

\* ---------------------------------------------------------- renderTemplate
HasTemplate(task) == \E i \in 1..Len(task) : task[i].kind # "lit"

\* RenderPart with the Steps map left out of the template data.
RenderPartNoSteps(part, sp, sss) ==
    CASE part.kind = "lit" -> part.arg
      [] part.kind = "input" -> sp.input
      [] OTHER -> ""

\* The text one part renders to: the Steps map holds Output and Error of every
\* entry of chain.Status.StepStatuses (lines 514-520); a name without an entry
\* renders the zero value.
RenderPart(part, sp, sss) ==
    CASE part.kind = "lit" -> part.arg
      [] part.kind = "input" -> sp.input
      [] part.kind = "output" ->
            LET k == LastIdx(sss, part.arg) IN IF k = 0 THEN "" ELSE sss[k].output
      [] part.kind = "error" ->
            LET k == LastIdx(sss, part.arg) IN IF k = 0 THEN "" ELSE sss[k].error
      [] OTHER -> ""

\* [err, text]: the rendered task, or the parse/execute error.
renderTemplate(sp, sss, task) ==
    IF ~HasTemplate(task) THEN [err |-> FALSE, text |-> [i \in 1..Len(task) |-> task[i].arg]]
    ELSE IF \E i \in 1..Len(task) : task[i].kind = "bad"
    THEN [err |-> TRUE, text |-> <<>>]
    ELSE [err |-> FALSE, text |-> [i \in 1..Len(task) |-> RenderPart(task[i], sp, sss)]]

\* ------------------------------------------------------------- dispatch
\* DepReady with the continueOnFailure test dropped: any Failed dependency
\* lets its dependents start.
DepReadyAnyFailed(sp, sss, dep) ==
    LET k == LastIdx(sss, dep)
    IN  k # 0 /\ sss[k].phase \in {"Succeeded", "Failed"}

\* The dependency check of lines 366-390 against the in-memory statuses.
DepReady(sp, sss, dep) ==
    LET k == LastIdx(sss, dep)
        d == LastIdx(sp.steps, dep)
    IN  /\ k # 0
        /\ \/ sss[k].phase = "Succeeded"
           \/ /\ sss[k].phase = "Failed"
              /\ d # 0
              /\ sp.steps[d].continueOnFailure

DepsReady(sp, sss, step) ==
    \A j \in 1..Len(step.dependsOn) : DepReady(sp, sss, step.dependsOn[j])

\* The backoff check of lines 358-364.
InBackoff(sp, ss, t) ==
    /\ ss.retries > 0
    /\ sp.retryPolicy.set
    /\ ss.completedAt # NoTime
    /\ t - ss.completedAt < sp.retryPolicy.backoffSeconds

\* The loop over chain.Spec.Steps (lines 350-428), from step i on.  pubOK is
\* the set of steps whose publish succeeds; a step without a status entry is a
\* nil dereference at line 354, which ends the pass.
RECURSIVE Dispatch(_, _, _, _, _, _, _, _)
Dispatch(i, sp, sss, pubs, ks, pubOK, t, nextId) ==
    IF i > Len(sp.steps) THEN [ss |-> sss, pubs |-> pubs, panic |-> FALSE]
    ELSE
      LET step == sp.steps[i]
          k == LastIdx(sss, step.name)
          skip == Dispatch(i + 1, sp, sss, pubs, ks, pubOK, t, nextId)
      IN  IF k = 0 THEN [ss |-> sss, pubs |-> pubs, panic |-> TRUE]
          ELSE IF sss[k].phase # "Pending" THEN skip
          ELSE IF InBackoff(sp, sss[k], t) THEN skip
          ELSE IF ~DepsReady(sp, sss, step) THEN skip
          ELSE IF renderTemplate(sp, sss, step.task).err
          THEN Dispatch(i + 1, sp,
                        [sss EXCEPT ![k] = [@ EXCEPT !.phase = "Failed",
                                                     !.error = "template render error",
                                                     !.completedAt = t]],
                        pubs, ks, pubOK, t, nextId)
          ELSE IF step.knightRef \notin ks THEN skip
          ELSE IF step.name \notin pubOK THEN skip
          ELSE Dispatch(i + 1, sp,
                        [sss EXCEPT ![k] = [@ EXCEPT !.phase = "Running", !.startedAt = t]],
                        Append(pubs, [taskId |-> nextId + Len(pubs), stepName |-> step.name,
                                      knight |-> step.knightRef,
                                      task |-> renderTemplate(sp, sss, step.task).text]),
                        ks, pubOK, t, nextId)

\* ------------------------------------------------------------ termination
FailsChain(sp, ss) ==
    /\ ss.phase = "Failed"
    /\ LET d == LastIdx(sp.steps, ss.name)
       IN  d = 0 \/ ~sp.steps[d].continueOnFailure

\* Lines 430-468: anyFailed, the Pending -> Skipped sweep, allTerminal.
SkipPending(sss) ==
    [i \in 1..Len(sss) |->
        IF sss[i].phase = "Pending" THEN [sss[i] EXCEPT !.phase = "Skipped"] ELSE sss[i]]

AnyFailed(sp, sss) == \E i \in 1..Len(sss) : FailsChain(sp, sss[i])

\* AllTerminal without the stillRunning check of lines 455-467.
AllTerminalIgnoringRunning(sp, sss) ==
    \/ AnyFailed(sp, sss)
    \/ \A i \in 1..Len(sss) : sss[i].phase \in {"Succeeded", "Failed", "Skipped"}

AllTerminal(sp, sss) ==
    IF AnyFailed(sp, sss)
    THEN ~\E i \in 1..Len(sss) : sss[i].phase = "Running"
    ELSE \A i \in 1..Len(sss) : sss[i].phase \in {"Succeeded", "Failed", "Skipped"}

\* Lines 430-505: the status the pass persists, from the in-memory status st
\* whose step statuses are sss after the dispatch loop.
Terminate(sp, st, sss, gen, t) ==
    LET swept == IF AnyFailed(sp, sss) THEN SkipPending(sss) ELSE sss
    IN  IF AllTerminal(sp, sss)
        THEN IF AnyFailed(sp, sss)
             THEN [st EXCEPT !.stepStatuses = swept, !.completedAt = t, !.phase = "Failed",
                             !.runsFailed = @ + 1, !.complete = "Failed",
                             !.observedGeneration = gen]
             ELSE [st EXCEPT !.stepStatuses = swept, !.completedAt = t,
                             !.phase = "Succeeded", !.runsCompleted = @ + 1,
                             !.complete = "Succeeded", !.observedGeneration = gen]
        ELSE [st EXCEPT !.stepStatuses = swept, !.observedGeneration = gen]

\* The overall timeout test of lines 272-274.
ChainTimedOut(sp, st, t) == st.startedAt # NoTime /\ t - st.startedAt > sp.timeout

\* TimeoutStatus without RunsFailed++.
TimeoutStatusUncounted(st, gen, t) ==
    [st EXCEPT !.phase = "Failed", !.completedAt = t, !.complete = "Timeout",
               !.observedGeneration = gen]

\* Lines 271-290: the status persisted by a pass that finds the run timed out.
TimeoutStatus(st, gen, t) ==
    [st EXCEPT !.phase = "Failed", !.completedAt = t, !.runsFailed = @ + 1,
               !.complete = "Timeout", !.observedGeneration = gen]

\* The step statuses after the polling loop; pollHit is the set of steps whose
\* NextMsg returns a message in time.
Polled(sp, sss, res, pollHit, t) ==
    [i \in 1..Len(sss) |->
        PollStep(sp, sss[i], pollResult(res, sss[i].name, sss[i].name \in pollHit), t)]

\* The steps for which the pass calls pollResult.
PolledNames(sp, sss, t) ==
    {sss[i].name : i \in {j \in 1..Len(sss) :
                            sss[j].phase = "Running" /\ ~StepTimedOut(sp, sss[j], t)}}

\* reconcileRunning: [status, pubs, polled, branch].  A panic persists nothing
\* of the pass, but the tasks published before it are on the bus.
reconcileRunning(sp, st, gen, ks, res, pollHit, pubOK, t, nextId) ==
    IF ChainTimedOut(sp, st, t)
    THEN [status |-> TimeoutStatus(st, gen, t), pubs |-> <<>>, polled |-> {},
          branch |-> "timeout"]
    ELSE LET polledSS == Polled(sp, st.stepStatuses, res, pollHit, t)
             d == Dispatch(1, sp, polledSS, <<>>, ks, pubOK, t, nextId)
         IN  IF d.panic
             THEN [status |-> st, pubs |-> d.pubs,
                   polled |-> PolledNames(sp, st.stepStatuses, t), branch |-> "panic"]
             ELSE [status |-> Terminate(sp, st, d.ss, gen, t), pubs |-> d.pubs,
                   polled |-> PolledNames(sp, st.stepStatuses, t), branch |-> "running"]


\* --------------------------------------------------------------- Reconcile
\* removeCronEntry that leaves the entry registered.
removeCronEntryKeeps(cron) == cron

\* reconcileSchedule / removeCronEntry on the registry restricted to ChainKey.
removeCronEntry(cron) == cron \ {ChainKey}

reconcileSchedule(sp, cron) ==
    IF sp.schedule = "" \/ sp.suspended THEN removeCronEntry(cron) ELSE cron \cup {ChainKey}

\* InvalidReason without the validateDAG call.
InvalidReasonKnightsOnly(sp, ks) ==
    IF ~validateKnightRefs(sp, ks) THEN "InvalidKnightRef" ELSE ""

\* The condition reason Reconcile records for a spec that fails validation
\* ("" when the spec is valid): lines 107-133.
InvalidReason(sp, ks) ==
    IF ~validateKnightRefs(sp, ks) THEN "InvalidKnightRef"
    ELSE IF validateDAG(sp.steps) # "" THEN "CyclicDependency"
    ELSE ""

\* One Reconcile call on the chain as read from the API: the object metadata,
\* the persisted status, the cron registry and the tasks published.
ReconcileOutcome(m, sp, st, ks, res, cron, pollHit, pubOK, t, nextId) ==
    LET same == [meta |-> m, status |-> st, cron |-> cron, pubs |-> <<>>, polled |-> {}]
        withFin == [m EXCEPT !.finalizer = TRUE]
        valid == [st EXCEPT !.valid = "Valid"]
        gen == m.generation
    IN
    IF ~m.exists THEN same @@ [branch |-> "notfound"]
    ELSE IF m.deletionTimestamp
    THEN [same EXCEPT !.meta = [m EXCEPT !.finalizer = FALSE, !.exists = FALSE],
                      !.cron = removeCronEntry(cron)] @@ [branch |-> "deleting"]
    ELSE IF InvalidReason(sp, ks) # ""
    THEN [same EXCEPT !.meta = withFin,
                      !.status = [st EXCEPT !.valid = InvalidReason(sp, ks),
                                            !.observedGeneration = gen]]
         @@ [branch |-> "invalid"]
    ELSE IF sp.suspended
    THEN [same EXCEPT !.meta = withFin, !.cron = reconcileSchedule(sp, cron),
                      !.status = [valid EXCEPT !.phase = "Suspended",
                                               !.observedGeneration = gen]]
         @@ [branch |-> "suspended"]
    ELSE IF st.phase = ""
    THEN [same EXCEPT !.meta = withFin, !.cron = reconcileSchedule(sp, cron),
                      !.status = [valid EXCEPT !.phase = "Idle",
                                               !.stepStatuses = initStepStatuses(sp.steps),
                                               !.observedGeneration = gen]]
         @@ [branch |-> "init"]
    ELSE IF st.phase = "Running"
    THEN LET r == reconcileRunning(sp, valid, gen, ks, res, pollHit, pubOK, t, nextId)
         IN  [meta |-> withFin, cron |-> reconcileSchedule(sp, cron),
              status |-> IF r.branch = "panic" THEN st ELSE r.status,
              pubs |-> r.pubs, polled |-> r.polled, branch |-> r.branch]
    ELSE [same EXCEPT !.meta = withFin, !.cron = reconcileSchedule(sp, cron)]
         @@ [branch |-> "noop"]

PublishedNames(pubs) == {pubs[i].stepName : i \in 1..Len(pubs)}

\* The inputs of a pass that can matter: a poll can only return a message for
\* a Running step whose subject holds one, a publish is only attempted for a
\* step that is Pending or (after a retry reset) Running.
PollableNames(st, res) ==
    {st.stepStatuses[i].name : i \in {j \in 1..Len(st.stepStatuses) :
        /\ st.stepStatuses[j].phase = "Running"
        /\ st.stepStatuses[j].name \in DOMAIN res
        /\ Len(res[st.stepStatuses[j].name]) > 0}}

PublishableNames(st) ==
    IF st.phase # "Running" THEN {}
    ELSE {st.stepStatuses[i].name : i \in {j \in 1..Len(st.stepStatuses) :
            st.stepStatuses[j].phase \in {"Pending", "Running"}}}

\* History: the completion time line 330 assigns to a failed attempt before
\* line 338 clears it again for the retry.
RetriedAt(old, before, after, t) ==
    [n \in DOMAIN old |->
        LET i == LastIdx(before, n)
            j == LastIdx(after, n)
        IN  IF i # 0 /\ j # 0 /\ after[j].retries > before[i].retries THEN t ELSE old[n]]

Reconcile ==
    \E pollHit \in SUBSET PollableNames(status, results),
       pubOK \in SUBSET PublishableNames(status) :
        \E o \in {ReconcileOutcome(meta, spec, status, knights, results, cronEntries,
                                  pollHit, pubOK, now, Len(bus) + 1)} :
            /\ Len(bus) + Len(o.pubs) <= MaxBus
            /\ meta' = o.meta
            /\ status' = o.status
            /\ cronEntries' = o.cron
            /\ bus' = bus \o o.pubs
            /\ last' = [op |-> "Reconcile", branch |-> o.branch, polled |-> o.polled,
                        published |-> PublishedNames(o.pubs)]
            /\ retriedAt' = RetriedAt(retriedAt, status.stepStatuses,
                                       o.status.stepStatuses, now)
            /\ UNCHANGED <<spec, knights, results, now, runId, dagSteps, dagErr, kindVars>>

\* ------------------------------------------------------------ environment
\* The history of an operation other than Reconcile.
Did(op) == [op |-> "env", branch |-> "", polled |-> {}, published |-> {}]

\* A trigger that starts the run on the step statuses of the previous run.
triggerChainKeepsSteps(m, sp, st, t) ==
    IF ~m.exists \/ sp.suspended THEN st
    ELSE [st EXCEPT !.phase = "Running", !.startedAt = t, !.completedAt = NoTime,
                    !.lastScheduledAt = t]

\* A trigger without the spec.suspended test of line 664.
triggerChainIgnoresSuspended(m, sp, st, t) ==
    IF ~m.exists THEN st
    ELSE [st EXCEPT !.stepStatuses = initStepStatuses(sp.steps), !.phase = "Running",
                    !.startedAt = t, !.completedAt = NoTime, !.lastScheduledAt = t]

\* triggerChain, called by the cron scheduler for a registered entry.
triggerChain(m, sp, st, t) ==
    IF ~m.exists \/ sp.suspended THEN st
    ELSE [st EXCEPT !.stepStatuses = initStepStatuses(sp.steps), !.phase = "Running",
                    !.startedAt = t, !.completedAt = NoTime, !.lastScheduledAt = t]

CronFire ==
    /\ ChainKey \in cronEntries
    /\ runId < MaxRuns
    /\ status' = triggerChain(meta, spec, status, now)
    /\ runId' = runId + 1
    /\ last' = Did("CronFire")
    /\ retriedAt' = IF status' = status THEN retriedAt ELSE [n \in StepNames |-> NoTime]
    /\ UNCHANGED <<spec, meta, knights, bus, results, cronEntries, now, dagSteps, dagErr,
                   kindVars>>

\* The Idle -> Running status write of an external actor (the Mission
\* controller's teardown launch).
ManualTrigger ==
    /\ meta.exists
    /\ status.phase = "Idle"
    /\ runId < MaxRuns
    /\ status' = [status EXCEPT !.phase = "Running", !.startedAt = now]
    /\ runId' = runId + 1
    /\ last' = Did("ManualTrigger")
    /\ UNCHANGED <<spec, meta, knights, bus, results, cronEntries, now, retriedAt,
                   dagSteps, dagErr, kindVars>>

\* A knight answers a task it was sent, once, on the step's result subject.
ResultMsgs(id) ==
    {[taskId |-> id, output |-> "ok", error |-> ""],
     [taskId |-> id, output |-> "", error |-> "boom"]}

Answered(res, id) ==
    \E n \in DOMAIN res : \E i \in 1..Len(res[n]) : res[n][i].taskId = id

ResultArrives ==
    \E k \in 1..Len(bus) : \E msg \in ResultMsgs(bus[k].taskId) :
        /\ ~Answered(results, bus[k].taskId)
        /\ results' = [results EXCEPT ![bus[k].stepName] = Append(@, msg)]
        /\ last' = Did("ResultArrives")
        /\ UNCHANGED <<spec, meta, status, knights, bus, cronEntries, now, runId,
                       retriedAt, dagSteps, dagErr, kindVars>>

Tick ==
    /\ now < MaxTime
    /\ now' = now + 1
    /\ last' = Did("Tick")
    /\ UNCHANGED <<spec, meta, status, knights, bus, results, cronEntries, runId,
                   retriedAt, dagSteps, dagErr, kindVars>>

DeleteKnight ==
    \E k \in knights :
        /\ knights' = knights \ {k}
        /\ last' = Did("DeleteKnight")
        /\ UNCHANGED <<spec, meta, status, bus, results, cronEntries, now, runId,
                       retriedAt, dagSteps, dagErr, kindVars>>

\* kubectl delete: with a finalizer the API server only sets deletionTimestamp.
DeleteChain ==
    /\ meta.exists
    /\ ~meta.deletionTimestamp
    /\ meta' = IF meta.finalizer THEN [meta EXCEPT !.deletionTimestamp = TRUE]
               ELSE [meta EXCEPT !.exists = FALSE]
    /\ last' = Did("DeleteChain")
    /\ UNCHANGED <<spec, status, knights, bus, results, cronEntries, now, runId,
                   retriedAt, dagSteps, dagErr, kindVars>>

\* ==================================================================
\* Mission controller (internal/controller/mission_controller.go)
\* ==================================================================
\* spec.ttl and spec.timeout of the modelled missions (seconds)
MissionTTL == 2
MissionTimeout == 1

Lancelot == "lancelot"
Gawain == "gawain"
Merlin == "merlin"
\* The names of the Knight resources that may exist in the Mission's namespace.
MKnightNames == {Lancelot, Gawain}
\* The names of the Chain resources a Mission refers to.
MChainNames == {"main", "td"}

MissionKnight(n, eph) == [name |-> n, ephemeral |-> eph]
MissionChainRef(n, ph) == [name |-> n, phase |-> ph]

MkMission(ks, chs, briefing, policy) ==
    [knights |-> ks, chains |-> chs, ttl |-> MissionTTL, timeout |-> MissionTimeout,
     cleanupPolicy |-> policy, briefing |-> briefing]

\* The missions of the model.
MSolo == MkMission(<<MissionKnight(Lancelot, FALSE)>>, <<>>, "go", "Delete")
MMixed ==
    MkMission(<<MissionKnight(Lancelot, FALSE), MissionKnight(Merlin, TRUE)>>, <<>>, "",
              "Retain")
MEphemeral == MkMission(<<MissionKnight(Merlin, TRUE)>>, <<>>, "", "Retain")
MPair ==
    MkMission(<<MissionKnight(Lancelot, FALSE), MissionKnight(Gawain, FALSE)>>, <<>>, "",
              "Retain")
MChains ==
    MkMission(<<MissionKnight(Lancelot, FALSE)>>,
              <<MissionChainRef("main", "Active"), MissionChainRef("td", "Teardown")>>,
              "go", "Delete")
MissionSpecs == {MSolo, MMixed, MEphemeral, MPair, MChains}

\* A Knight resource as the Mission controller reads it.
NoKnight == [exists |-> FALSE, phase |-> "", ready |-> FALSE]
KnightProvisioning == [exists |-> TRUE, phase |-> "Provisioning", ready |-> FALSE]
KnightReady == [exists |-> TRUE, phase |-> "Ready", ready |-> TRUE]
MKnightStates == {NoKnight, KnightProvisioning, KnightReady}

EmptyMissionStatus ==
    [phase |-> "", knightStatuses |-> <<>>, startedAt |-> NoTime, completedAt |-> NoTime,
     expiresAt |-> NoTime, result |-> "", observedGeneration |-> 0,
     knightsReady |-> "", briefingPublished |-> "", complete |-> "",
     cleanupComplete |-> FALSE]

NewMission(sp) ==
    [exists |-> TRUE, deletionTimestamp |-> FALSE, finalizer |-> FALSE, generation |-> 1,
     spec |-> sp, status |-> EmptyMissionStatus]

\* The controller between passes; transitions counts the phase transitions the
\* current pass has persisted, dirty says the object was written by someone
\* else since the pass last wrote it.
IdleCtl == [pc |-> "idle", dirty |-> FALSE, transitions |-> 0]

NoMLast ==
    [op |-> "env", branch |-> "", err |-> FALSE, deleted |-> FALSE, requeue |-> 0,
     chainStartedAt |-> NoTime]

\* initKnightStatuses
initKnightStatuses(sp) ==
    [i \in 1..Len(sp.knights) |->
        [name |-> sp.knights[i].name, ready |-> FALSE, ephemeral |-> sp.knights[i].ephemeral]]

\* A TTL test that never finds the TTL reached.
TTLExpiredNever(st, t) == FALSE

\* The TTL test of reconcileCleaningUp (lines 488-490).
TTLExpiredAnyPhase(st, t) == st.expiresAt # NoTime /\ t > st.expiresAt

\* The TTL test without its phase guard.
TTLExpiredEvenCleaningUp(st, t) == st.expiresAt # NoTime /\ t > st.expiresAt

\* The TTL test guarded against the terminal phases as well.
TTLExpiredNonTerminal(st, t) ==
    /\ st.expiresAt # NoTime
    /\ t > st.expiresAt
    /\ st.phase \notin {"CleaningUp", "Expired", "Succeeded", "Failed"}

\* The TTL test of lines 111-113.
TTLExpired(st, t) ==
    /\ st.expiresAt # NoTime
    /\ t > st.expiresAt
    /\ st.phase \notin {"CleaningUp", "Expired"}

\* ------------------------------------------------- reconcileAssembling
\* The readiness test of line 213 on a Knight that exists.
KnightIsReadyAnyPhase(k) == k.exists

KnightIsReady(k) == k.phase = "Ready" /\ k.ready

\* The index of the first non-ephemeral knight of the spec whose Get fails
\* (0: none).
RECURSIVE FirstMissing(_, _, _)
FirstMissing(sp, ks, i) ==
    IF i > Len(sp.knights) THEN 0
    ELSE IF ~sp.knights[i].ephemeral /\ ~ks[sp.knights[i].name].exists THEN i
    ELSE FirstMissing(sp, ks, i + 1)

\* The ephemeral test of line 184.
SkipsAsEphemeralNever(mk) == FALSE

SkipsAsEphemeral(mk) == mk.ephemeral

\* Lines 183-219 for knight i: the Ready flag written to KnightStatuses[i].
AssembledReady(sp, ks, i) ==
    IF SkipsAsEphemeral(sp.knights[i]) THEN FALSE
    ELSE KnightIsReady(ks[sp.knights[i].name])

\* KnightStatuses after the loop has handled knights 1..n.
Assembled(sp, kss, ks, n) ==
    [i \in 1..Len(kss) |->
        IF i <= n /\ i <= Len(sp.knights)
        THEN [kss[i] EXCEPT !.ready = AssembledReady(sp, ks, i)] ELSE kss[i]]

\* allReady after the whole loop.
AllReady(sp, ks) == \A i \in 1..Len(sp.knights) : AssembledReady(sp, ks, i)

HasNonEphemeral(sp) == \E i \in 1..Len(sp.knights) : ~sp.knights[i].ephemeral

\* reconcileAssembling: [status, branch].
reconcileAssembling(sp, st, gen, ks, t) ==
    LET miss == FirstMissing(sp, ks, 1)
        all == Assembled(sp, st.knightStatuses, ks, Len(sp.knights))
    IN  IF miss # 0
        THEN [status |-> [st EXCEPT !.knightStatuses =
                                        Assembled(sp, st.knightStatuses, ks, miss - 1),
                                    !.knightsReady = "KnightNotFound",
                                    !.observedGeneration = gen],
              branch |-> "knight-missing"]
        ELSE IF AllReady(sp, ks) /\ Len(sp.knights) > 0
        THEN IF ~HasNonEphemeral(sp)
             THEN [status |-> [st EXCEPT !.knightStatuses = all,
                                         !.knightsReady = "NoValidKnights",
                                         !.phase = "Failed", !.completedAt = t,
                                         !.result = "No valid knights available",
                                         !.observedGeneration = gen],
                   branch |-> "no-valid-knights"]
             ELSE [status |-> [st EXCEPT !.knightStatuses = all,
                                         !.knightsReady = "AllKnightsReady",
                                         !.phase = "Briefing",
                                         !.observedGeneration = gen],
                   branch |-> "assembled"]
        ELSE [status |-> [st EXCEPT !.knightStatuses = all, !.observedGeneration = gen],
              branch |-> "assembling"]

\* --------------------------------------------------- reconcileBriefing
\* publishBriefing: the envelope on <prefix>.briefing, then one task per
\* non-ephemeral knight that exists.
publishBriefing(sp, ks) ==
    <<[subject |-> "briefing", knight |-> ""]>> \o
    SelectSeq([i \in 1..Len(sp.knights) |-> [subject |-> "task", knight |-> sp.knights[i].name]],
              LAMBDA m : \E i \in 1..Len(sp.knights) :
                            /\ sp.knights[i].name = m.knight
                            /\ ~sp.knights[i].ephemeral
                            /\ ks[m.knight].exists)

\* reconcileBriefing going on to Active whether or not the publish succeeds.
reconcileBriefingIgnoresFailure(sp, st, gen, ks, pubOK) ==
    [status |-> [st EXCEPT !.briefingPublished =
                               IF sp.briefing # "" THEN "Published" ELSE "NoBriefing",
                           !.phase = "Active", !.observedGeneration = gen],
     pubs |-> IF sp.briefing # "" /\ pubOK THEN publishBriefing(sp, ks) ELSE <<>>,
     branch |-> "briefed"]

\* reconcileBriefing: [status, pubs, branch]; pubOK says whether the bus
\* connection and the publish of the envelope succeed.
reconcileBriefing(sp, st, gen, ks, pubOK) ==
    IF sp.briefing # "" /\ ~pubOK
    THEN [status |-> [st EXCEPT !.briefingPublished = "PublishFailed",
                                !.observedGeneration = gen],
          pubs |-> <<>>, branch |-> "briefing-failed"]
    ELSE [status |-> [st EXCEPT !.briefingPublished =
                                    IF sp.briefing # "" THEN "Published" ELSE "NoBriefing",
                                !.phase = "Active", !.observedGeneration = gen],
          pubs |-> IF sp.briefing # "" THEN publishBriefing(sp, ks) ELSE <<>>,
          branch |-> "briefed"]

\* ----------------------------------------------------- reconcileActive
\* reconcileMissionChains over the Setup and Active references.
ActiveRefs(sp) ==
    {i \in 1..Len(sp.chains) : sp.chains[i].phase \in {"Setup", "Active"}}

AnyChainFailed(sp, chs) ==
    \E i \in ActiveRefs(sp) : chs[sp.chains[i].name] \in {"absent", "Failed"}

\* allComplete whatever the phases of the chains.
AllChainsCompleteAlways(sp, chs) == TRUE

AllChainsComplete(sp, chs) ==
    \A i \in ActiveRefs(sp) : chs[sp.chains[i].name] \in {"absent", "Succeeded", "Failed"}

\* updateKnightStatuses
updateKnightStatuses(sp, kss, ks) ==
    [i \in 1..Len(kss) |->
        IF i > Len(sp.knights) \/ sp.knights[i].ephemeral THEN kss[i]
        ELSE [kss[i] EXCEPT !.ready = ks[sp.knights[i].name].exists
                                        /\ ks[sp.knights[i].name].ready]]

MissionTimedOut(sp, st, t) == st.startedAt # NoTime /\ t - st.startedAt > sp.timeout

Completed(st, gen, t, phase, reason, result) ==
    [st EXCEPT !.phase = phase, !.completedAt = t, !.result = result,
               !.complete = reason, !.observedGeneration = gen]

\* reconcileActive looking at the chains before the timeout.
reconcileActiveChainsFirst(sp, st, gen, ks, chs, t) ==
    IF Len(sp.chains) = 0
    THEN [status |-> Completed(st, gen, t, "Succeeded", "Succeeded",
                               "Mission completed (briefing-only)"),
          branch |-> "briefing-only"]
    ELSE IF AnyChainFailed(sp, chs)
    THEN [status |-> Completed(st, gen, t, "Failed", "ChainFailed",
                               "One or more mission chains failed"),
          branch |-> "chain-failed"]
    ELSE IF AllChainsComplete(sp, chs)
    THEN [status |-> Completed(st, gen, t, "Succeeded", "Succeeded",
                               "All mission chains completed successfully"),
          branch |-> "chains-complete"]
    ELSE IF MissionTimedOut(sp, st, t)
    THEN [status |-> Completed(st, gen, t, "Failed", "Timeout", "Mission timed out"),
          branch |-> "timeout"]
    ELSE [status |-> [st EXCEPT !.knightStatuses =
                                    updateKnightStatuses(sp, st.knightStatuses, ks),
                                !.observedGeneration = gen],
          branch |-> "active"]

\* reconcileActive: [status, branch].
reconcileActive(sp, st, gen, ks, chs, t) ==
    IF MissionTimedOut(sp, st, t)
    THEN [status |-> Completed(st, gen, t, "Failed", "Timeout", "Mission timed out"),
          branch |-> "timeout"]
    ELSE IF Len(sp.chains) = 0
    THEN [status |-> Completed(st, gen, t, "Succeeded", "Succeeded",
                               "Mission completed (briefing-only)"),
          branch |-> "briefing-only"]
    ELSE IF AnyChainFailed(sp, chs)
    THEN [status |-> Completed(st, gen, t, "Failed", "ChainFailed",
                               "One or more mission chains failed"),
          branch |-> "chain-failed"]
    ELSE IF AllChainsComplete(sp, chs)
    THEN [status |-> Completed(st, gen, t, "Succeeded", "Succeeded",
                               "All mission chains completed successfully"),
          branch |-> "chains-complete"]
    ELSE [status |-> [st EXCEPT !.knightStatuses =
                                    updateKnightStatuses(sp, st.knightStatuses, ks),
                                !.observedGeneration = gen],
          branch |-> "active"]

\* ------------------------------------------------- reconcileCleaningUp
\* The first Teardown reference whose chain is Idle or Running stops the loop
\* of lines 457-485 (0: the loop runs to its end).
\* A loop that does not look at the tag of the reference.
FirstPendingAnyTag(sp, chs, i) ==
    LET pending == {j \in i..Len(sp.chains) : chs[sp.chains[j].name] \in {"Idle", "Running"}}
    IN  IF pending = {} THEN 0 ELSE CHOOSE j \in pending : \A k \in pending : j <= k

\* A loop that finds no Teardown chain to wait for.
FirstTeardownPendingNone(sp, chs, i) == 0

RECURSIVE FirstTeardownPending(_, _, _)
FirstTeardownPending(sp, chs, i) ==
    IF i > Len(sp.chains) THEN 0
    ELSE IF sp.chains[i].phase = "Teardown" /\ chs[sp.chains[i].name] \in {"Idle", "Running"}
    THEN i
    ELSE FirstTeardownPending(sp, chs, i + 1)

\* reconcileCleaningUp: [status, chains, started, delete, branch]; started is
\* the StartedAt written to the chain the pass launches (NoTime: none).
reconcileCleaningUp(sp, st, gen, chs, t) ==
    LET k == FirstTeardownPending(sp, chs, 1)
    IN  IF k # 0 /\ chs[sp.chains[k].name] = "Idle"
        THEN [status |-> st, chains |-> [chs EXCEPT ![sp.chains[k].name] = "Running"],
              started |-> t, delete |-> FALSE, branch |-> "teardown-launched"]
        ELSE IF k # 0
        THEN [status |-> st, chains |-> chs, started |-> NoTime, delete |-> FALSE,
              branch |-> "teardown-wait"]
        ELSE IF sp.cleanupPolicy = "Delete" /\ TTLExpiredAnyPhase(st, t)
        THEN [status |-> st, chains |-> chs, started |-> NoTime, delete |-> TRUE,
              branch |-> "self-delete"]
        ELSE [status |-> [st EXCEPT !.cleanupComplete = TRUE, !.observedGeneration = gen],
              chains |-> chs, started |-> NoTime, delete |-> FALSE, branch |-> "cleaned-up"]

\* ------------------------------------------------------------ Reconcile
\* One pass of MissionReconciler.Reconcile up to its first return or, on the
\* TTL path, up to the first of its two status updates:
\* [mission, chains, started, pubs, branch, more], more saying the pass goes on.
MissionOutcome(m, ks, chs, t, pubOK) ==
    LET gen == m.generation
        fin == [m EXCEPT !.finalizer = TRUE]
        same == [mission |-> m, chains |-> chs, started |-> NoTime, pubs |-> <<>>,
                 more |-> FALSE]
        wrote(st) == [same EXCEPT !.mission = [fin EXCEPT !.status = st]]
    IN
    IF ~m.exists THEN same @@ [branch |-> "notfound"]
    ELSE IF m.deletionTimestamp
    THEN [same EXCEPT !.mission = [m EXCEPT !.finalizer = FALSE, !.exists = FALSE]]
         @@ [branch |-> "deleting"]
    ELSE IF m.status.phase = ""
    THEN wrote([m.status EXCEPT !.phase = "Assembling", !.startedAt = t,
                                !.expiresAt = t + m.spec.ttl,
                                !.knightStatuses = initKnightStatuses(m.spec),
                                !.observedGeneration = gen])
         @@ [branch |-> "init"]
    ELSE IF TTLExpired(m.status, t)
    THEN [wrote([m.status EXCEPT !.phase = "Expired", !.completedAt = t,
                                 !.result = "Mission expired (TTL exceeded)",
                                 !.complete = "Expired", !.observedGeneration = gen])
          EXCEPT !.more = TRUE] @@ [branch |-> "expired"]
    ELSE IF m.status.phase = "Assembling"
    THEN LET r == reconcileAssembling(m.spec, m.status, gen, ks, t)
         IN  wrote(r.status) @@ [branch |-> r.branch]
    ELSE IF m.status.phase = "Briefing"
    THEN LET r == reconcileBriefing(m.spec, m.status, gen, ks, pubOK)
         IN  [wrote(r.status) EXCEPT !.pubs = r.pubs] @@ [branch |-> r.branch]
    ELSE IF m.status.phase = "Active"
    THEN LET r == reconcileActive(m.spec, m.status, gen, ks, chs, t)
         IN  wrote(r.status) @@ [branch |-> r.branch]
    ELSE IF m.status.phase \in {"Succeeded", "Failed"}
    THEN wrote([m.status EXCEPT !.phase = "CleaningUp", !.observedGeneration = gen])
         @@ [branch |-> "to-cleanup"]
    ELSE IF m.status.phase = "CleaningUp"
    THEN LET r == reconcileCleaningUp(m.spec, m.status, gen, chs, t)
         IN  [wrote(r.status) EXCEPT !.chains = r.chains, !.started = r.started,
                                     !.mission.deletionTimestamp = r.delete]
             @@ [branch |-> r.branch]
    ELSE wrote([m.status EXCEPT !.phase = "CleaningUp"]) @@ [branch |-> "expired-to-cleanup"]

PhaseChanges(old, new) == IF old.status.phase # new.status.phase THEN 1 ELSE 0

\* The RequeueAfter of the ctrl.Result a pass returns on the given branch, in
\* seconds (0: no requeue is asked for); sp, st and t are the spec, the status
\* and the clock the pass ran with.
RequeueAfter(branch, sp, st, t) ==
    CASE branch \in {"assembled", "briefed"} -> 1
      [] branch \in {"assembling", "briefing-failed", "active", "teardown-launched",
                     "teardown-wait", "to-cleanup", "expired-to-cleanup",
                     "expired-cleanup"} -> 5
      [] branch = "knight-missing" -> 10
      [] branch = "cleaned-up" ->
            IF sp.cleanupPolicy = "Delete" /\ st.expiresAt # NoTime /\ st.expiresAt - t > 0
            THEN st.expiresAt - t ELSE 0
      [] OTHER -> 0

\* A pass starts: everything up to the first return, or up to the first status
\* update of the TTL path.
MissionReconcile ==
    /\ mctl.pc = "idle"
    /\ \E pubOK \in BOOLEAN :
        \E o \in {MissionOutcome(mission, mknights, mchains, now, pubOK)} :
            /\ mission' = o.mission
            /\ mchains' = o.chains
            /\ mbus' = mbus \o o.pubs
            /\ mctl' = [pc |-> IF o.more THEN "ttl" ELSE "idle", dirty |-> FALSE,
                        transitions |-> PhaseChanges(mission, o.mission)]
            /\ mlast' = [op |-> "MissionReconcile", branch |-> o.branch, err |-> FALSE,
                         deleted |-> o.mission.deletionTimestamp /\ ~mission.deletionTimestamp,
                         requeue |-> RequeueAfter(o.branch, mission.spec, mission.status,
                                                  now),
                         chainStartedAt |-> o.started]
    /\ UNCHANGED <<mknights, chainVars, dagSteps, dagErr,
                   tableVars>>

\* Lines 130-132: the pass that has persisted Expired sets CleaningUp on the
\* object it holds and updates the status again; the update is refused with a
\* conflict when the object was written in between.
MissionExpiredCleanup ==
    /\ mctl.pc = "ttl"
    /\ IF mctl.dirty \/ ~mission.exists
       THEN /\ mission' = mission
            /\ mlast' = [op |-> "MissionExpiredCleanup", branch |-> "conflict", err |-> TRUE,
                         deleted |-> FALSE, requeue |-> 0, chainStartedAt |-> NoTime]
            /\ mctl' = [mctl EXCEPT !.pc = "idle"]
       ELSE /\ mission' = [mission EXCEPT !.status.phase = "CleaningUp"]
            /\ mlast' = [op |-> "MissionExpiredCleanup", branch |-> "expired-cleanup",
                         err |-> FALSE, deleted |-> FALSE,
                         requeue |-> RequeueAfter("expired-cleanup", mission.spec,
                                                  mission.status, now),
                         chainStartedAt |-> NoTime]
            /\ mctl' = [mctl EXCEPT !.pc = "idle", !.transitions = @ + 1]
    /\ UNCHANGED <<mknights, mchains, mbus, chainVars, dagSteps, dagErr,
                   tableVars>>

\* ---------------------------------------------------------- environment
\* The controller as the environment leaves it: a finished pass is forgotten,
\* a pass in progress is untouched.
Between(c) == IF c.pc = "idle" THEN IdleCtl ELSE c

\* The Knight and Chain resources the mission's spec names.
ReferredKnights(sp) ==
    {sp.knights[i].name : i \in {j \in 1..Len(sp.knights) : ~sp.knights[j].ephemeral}}

ReferredChains(sp) == {sp.chains[i].name : i \in 1..Len(sp.chains)}

\* A Knight the mission names is created, deleted or changes readiness.
KnightChanges ==
    \E k \in ReferredKnights(mission.spec) : \E s \in MKnightStates \ {mknights[k]} :
        /\ mknights' = [mknights EXCEPT ![k] = s]
        /\ mctl' = Between(mctl)
        /\ mlast' = NoMLast
        /\ UNCHANGED <<mission, mchains, mbus, chainVars, dagSteps, dagErr,
                   tableVars>>

\* A referenced Chain is run by its own controller.
ChainPhaseSteps ==
    {<<"Idle", "Running">>, <<"Running", "Succeeded">>, <<"Running", "Failed">>}

ChainAdvances ==
    \E c \in ReferredChains(mission.spec) : \E e \in ChainPhaseSteps :
        /\ mchains[c] = e[1]
        /\ mchains' = [mchains EXCEPT ![c] = e[2]]
        /\ mctl' = Between(mctl)
        /\ mlast' = NoMLast
        /\ UNCHANGED <<mission, mknights, mbus, chainVars, dagSteps, dagErr,
                   tableVars>>

\* kubectl delete mission.
DeleteMission ==
    /\ mission.exists
    /\ ~mission.deletionTimestamp
    /\ mission' = IF mission.finalizer THEN [mission EXCEPT !.deletionTimestamp = TRUE]
                  ELSE [mission EXCEPT !.exists = FALSE]
    /\ mctl' = [Between(mctl) EXCEPT !.dirty = (mctl.pc = "ttl")]
    /\ mlast' = NoMLast
    /\ UNCHANGED <<mknights, mchains, mbus, chainVars, dagSteps, dagErr,
                   tableVars>>

\* ==================================================================
\* Knight controller (KnightReconciler) and RoundTable controller
\* (RoundTableReconciler)
\* ==================================================================
NewKnightStatus ==
    [phase |-> "", ready |-> FALSE, observedGeneration |-> 0, available |-> "",
     natsConsumer |-> "", totalCost |-> ""]

NewKnight(susp) ==
    [exists |-> TRUE, deletionTimestamp |-> FALSE, finalizer |-> FALSE, generation |-> 1,
     spec |-> [suspended |-> susp, consumerName |-> ""], status |-> NewKnightStatus]

\* The objects a Knight owns: ConfigMap knight-<name>-config, PVC
\* knight-<name>-workspace, Deployment <name>.
NoChildren ==
    [configMap |-> FALSE, pvc |-> FALSE, deployment |-> FALSE, replicas |-> 0,
     readyReplicas |-> 0]

\* RequeueAfter of a pass one of whose upserts failed (line 863), in seconds.
KnightErrorRequeue == 30

\* The highest generation a Knight reaches: two edits of its spec.
MaxKnightGeneration == 3

\* The API call of a pass that fails ("none": all succeed).
KnightFailures == {"none", "configmap", "pvc", "deployment"}

\* failed: the call that failed; attempted: the upserts of owned objects the
\* pass called, in order; requeue: the RequeueAfter it returned (seconds).
NoKLast ==
    [op |-> "env", branch |-> "", err |-> FALSE, creates |-> 0, failed |-> "none",
     attempted |-> <<>>, requeue |-> 0]

\* reconcileSuspended leaving the Deployment as it is.
reconcileSuspendedNoScale(k, st, ch, fail) ==
    [status |-> [st EXCEPT !.phase = "Suspended", !.ready = FALSE,
                           !.available = "Suspended",
                           !.observedGeneration = k.generation],
     children |-> ch, err |-> FALSE]

\* reconcileSuspended: [status, children, err].
reconcileSuspended(k, st, ch, fail) ==
    IF ch.deployment /\ ch.replicas # 0 /\ fail = "deployment"
    THEN [status |-> st, children |-> ch, err |-> TRUE]
    ELSE [status |-> [st EXCEPT !.phase = "Suspended", !.ready = FALSE,
                                !.available = "Suspended",
                                !.observedGeneration = k.generation],
          children |-> IF ch.deployment THEN [ch EXCEPT !.replicas = 0] ELSE ch,
          err |-> FALSE]

\* reconcileConfigMap, reconcilePVC and reconcileDeployment in turn: the
\* children after the three calls.
ReconcileChildren(ch, fail) ==
    [ch EXCEPT !.configMap = @ \/ fail # "configmap",
               !.pvc = @ \/ fail # "pvc",
               !.deployment = @ \/ fail # "deployment",
               !.replicas = IF fail # "deployment" THEN 1 ELSE @]

\* The number of Create calls among them.
Creates(ch, after) ==
    (IF after.configMap /\ ~ch.configMap THEN 1 ELSE 0)
    + (IF after.pvc /\ ~ch.pvc THEN 1 ELSE 0)
    + (IF after.deployment /\ ~ch.deployment THEN 1 ELSE 0)

\* The consumer name written to the status.
ConsumerName(k) ==
    IF k.spec.consumerName = "" THEN <<"knight-", Lancelot>> ELSE <<k.spec.consumerName>>

\* updateStatus deriving the phase from the Deployment alone.
updateStatusIgnoresError(k, st, ch, reconcileErr) ==
    LET derived ==
            IF ch.deployment /\ ch.readyReplicas > 0
            THEN [st EXCEPT !.phase = "Ready", !.ready = TRUE, !.available = "KnightReady"]
            ELSE [st EXCEPT !.phase = "Provisioning", !.ready = FALSE,
                            !.available = "Provisioning"]
    IN  [derived EXCEPT !.natsConsumer = ConsumerName(k),
                        !.observedGeneration = k.generation]

\* updateStatus
updateStatus(k, st, ch, reconcileErr) ==
    LET derived ==
            IF reconcileErr
            THEN [st EXCEPT !.phase = "Degraded", !.ready = FALSE,
                            !.available = "ReconcileError"]
            ELSE IF ch.deployment /\ ch.readyReplicas > 0
            THEN [st EXCEPT !.phase = "Ready", !.ready = TRUE, !.available = "KnightReady"]
            ELSE [st EXCEPT !.phase = "Provisioning", !.ready = FALSE,
                            !.available = "Provisioning"]
    IN  [derived EXCEPT !.natsConsumer = ConsumerName(k),
                        !.observedGeneration = k.generation]

\* The upserts of lines 834-854, in the order of the calls.
ChildUpserts == <<"configmap", "pvc", "deployment">>

\* One pass of KnightReconciler.Reconcile:
\* [knight, children, err, branch, attempted, requeue].
KnightOutcome(k, ch, fail) ==
    LET fin == [k EXCEPT !.finalizer = TRUE]
        st0 == IF k.status.phase = "" THEN [k.status EXCEPT !.phase = "Provisioning"]
               ELSE k.status
    IN
    IF ~k.exists
    THEN [knight |-> k, children |-> ch, err |-> FALSE, branch |-> "notfound",
          attempted |-> <<>>, requeue |-> 0]
    ELSE IF k.deletionTimestamp
    THEN [knight |-> [k EXCEPT !.finalizer = FALSE, !.exists = FALSE], children |-> ch,
          err |-> FALSE, branch |-> "deleting", attempted |-> <<>>, requeue |-> 0]
    ELSE IF k.spec.suspended
    THEN LET r == reconcileSuspended(k, st0, ch, fail)
         IN  [knight |-> [fin EXCEPT !.status = r.status], children |-> r.children,
              err |-> r.err, branch |-> "suspended", attempted |-> <<>>, requeue |-> 0]
    ELSE LET after == ReconcileChildren(ch, fail)
         IN  [knight |-> [fin EXCEPT !.status = updateStatus(k, st0, after, fail # "none")],
              children |-> after, err |-> fail # "none", branch |-> "reconciled",
              attempted |-> ChildUpserts,
              requeue |-> IF fail # "none" THEN KnightErrorRequeue ELSE 0]

KnightReconcile ==
    \E fail \in KnightFailures :
        \E o \in {KnightOutcome(knight, kchildren, fail)} :
            /\ knight' = o.knight
            /\ kchildren' = o.children
            /\ klast' = [op |-> "KnightReconcile", branch |-> o.branch, err |-> o.err,
                         creates |-> Creates(kchildren, o.children),
                         failed |-> IF o.err THEN fail ELSE "none",
                         attempted |-> o.attempted, requeue |-> o.requeue]
            /\ UNCHANGED <<fleet, fstreams, peer, flast, missionVars, chainVars, dagSteps,
                           dagErr>>

\* ---------------------------------------------------------- RoundTable
\* status.totalCost of a Knight, as its runtime reports it.
CostTexts == {"", "1", "3", "n/a"}
\* spec.policies.costBudgetUSD
BudgetTexts == {"", "0", "2", "n/a"}

\* strconv.ParseFloat on the texts of the model: [ok, value].
ParseFloat(s) ==
    IF s = "0" THEN [ok |-> TRUE, value |-> 0]
    ELSE IF s = "1" THEN [ok |-> TRUE, value |-> 1]
    ELSE IF s = "2" THEN [ok |-> TRUE, value |-> 2]
    ELSE IF s = "3" THEN [ok |-> TRUE, value |-> 3]
    ELSE [ok |-> FALSE, value |-> 0]

\* fmt.Sprintf("%.4f", totalCost): integer part and fraction digits.
FormatCost(c) == <<c, ".0000">>

NewFleetStatus ==
    [phase |-> "", knightsTotal |-> 0, knightsReady |-> 0, totalCost |-> <<>>,
     activeMissions |-> 0, available |-> "", natsReady |-> "", observedGeneration |-> 0]

NewFleet(susp, budget, streams) ==
    [exists |-> TRUE, deletionTimestamp |-> FALSE, finalizer |-> FALSE, generation |-> 1,
     spec |-> [suspended |-> susp, costBudgetUSD |-> budget, createStreams |-> streams],
     status |-> NewFleetStatus]

\* Another Knight of the namespace, as the list returns it.
NoPeer == [exists |-> FALSE, phase |-> "", ready |-> FALSE, totalCost |-> ""]
PeerStates ==
    {NoPeer,
     [exists |-> TRUE, phase |-> "Provisioning", ready |-> FALSE, totalCost |-> ""],
     [exists |-> TRUE, phase |-> "Ready", ready |-> TRUE, totalCost |-> "3"]}

NoFLast == [op |-> "env", branch |-> "", err |-> FALSE]

\* discoverKnights: the status of every Knight of the namespace.
discoverKnights(k, p) ==
    (IF k.exists THEN <<k.status>> ELSE <<>>) \o (IF p.exists THEN <<p>> ELSE <<>>)

ReadyCount(ks) == Cardinality({i \in 1..Len(ks) : ks[i].ready})

RECURSIVE SumCost(_, _)
SumCost(ks, i) ==
    IF i > Len(ks) THEN 0
    ELSE (IF ks[i].totalCost # "" /\ ParseFloat(ks[i].totalCost).ok
          THEN ParseFloat(ks[i].totalCost).value ELSE 0) + SumCost(ks, i + 1)

\* computePhase looking at the health of the knights before the budget.
computePhaseHealthFirst(sp, readyCount, total, totalCost) ==
    IF total = 0 THEN "Provisioning"
    ELSE IF readyCount = total THEN "Ready"
    ELSE IF /\ sp.costBudgetUSD \notin {"", "0"}
            /\ ParseFloat(sp.costBudgetUSD).ok
            /\ totalCost > ParseFloat(sp.costBudgetUSD).value
    THEN "OverBudget"
    ELSE "Degraded"

\* computePhase
computePhase(sp, readyCount, total, totalCost) ==
    IF /\ sp.costBudgetUSD \notin {"", "0"}
       /\ ParseFloat(sp.costBudgetUSD).ok
       /\ totalCost > ParseFloat(sp.costBudgetUSD).value
    THEN "OverBudget"
    ELSE IF total = 0 THEN "Provisioning"
    ELSE IF readyCount = total THEN "Ready"
    ELSE "Degraded"

\* countActiveMissions
countActiveMissions(m) ==
    IF m.exists /\ m.status.phase \in {"Assembling", "Briefing", "Active"} THEN 1 ELSE 0

AvailableReason(phase) ==
    IF phase = "Ready" THEN "AllKnightsReady"
    ELSE IF phase = "Degraded" THEN "KnightsDegraded"
    ELSE IF phase = "OverBudget" THEN "OverBudget"
    ELSE "Provisioning"

FleetStreams == {"tasks", "results"}

\* One pass of RoundTableReconciler.Reconcile: [fleet, streams, err, branch];
\* listOK and natsOK say whether the Knight list and the bus connection succeed.
FleetOutcome(f, k, p, m, streams, listOK, natsOK) ==
    LET ks == discoverKnights(k, p)
        phase == computePhase(f.spec, ReadyCount(ks), Len(ks), SumCost(ks, 1))
    IN
    IF ~f.exists
    THEN [fleet |-> f, streams |-> streams, err |-> FALSE, branch |-> "notfound"]
    ELSE IF f.spec.suspended
    THEN [fleet |-> [f EXCEPT !.status.phase = "Suspended",
                              !.status.available = "Suspended",
                              !.status.observedGeneration = f.generation],
          streams |-> streams, err |-> FALSE, branch |-> "suspended"]
    ELSE IF ~listOK
    THEN [fleet |-> f, streams |-> streams, err |-> TRUE, branch |-> "list-failed"]
    ELSE [fleet |-> [f EXCEPT !.status =
                        [@ EXCEPT !.knightsTotal = Len(ks),
                                  !.knightsReady = ReadyCount(ks),
                                  !.totalCost = FormatCost(SumCost(ks, 1)),
                                  !.natsReady = IF ~f.spec.createStreams THEN @
                                                ELSE IF natsOK THEN "StreamsReady"
                                                ELSE "StreamError",
                                  !.phase = phase,
                                  !.activeMissions = countActiveMissions(m),
                                  !.available = AvailableReason(phase),
                                  !.observedGeneration = f.generation]],
          streams |-> IF f.spec.createStreams /\ natsOK THEN streams \cup FleetStreams
                      ELSE streams,
          err |-> FALSE, branch |-> "aggregated"]

FleetReconcile ==
    \E listOK \in BOOLEAN : \E natsOK \in BOOLEAN :
        \E o \in {FleetOutcome(fleet, knight, peer, mission, fstreams, listOK, natsOK)} :
            /\ fleet' = o.fleet
            /\ fstreams' = o.streams
            /\ flast' = [op |-> "FleetReconcile", branch |-> o.branch, err |-> o.err]
            /\ UNCHANGED <<knight, kchildren, klast, peer, missionVars, chainVars,
                           dagSteps, dagErr>>

\* ---------------------------------------------------------- environment
\* kubectl edit knight: spec.suspended is flipped.
EditKnight ==
    /\ knight.exists
    /\ ~knight.deletionTimestamp
    /\ knight.generation < MaxKnightGeneration
    /\ knight' = [knight EXCEPT !.spec.suspended = ~@, !.generation = @ + 1]
    /\ klast' = NoKLast
    /\ flast' = NoFLast
    /\ UNCHANGED <<kchildren, fleet, fstreams, peer, missionVars, chainVars, dagSteps,
                   dagErr>>

\* kubectl delete knight.
DeleteKnightResource ==
    /\ knight.exists
    /\ ~knight.deletionTimestamp
    /\ knight' = IF knight.finalizer THEN [knight EXCEPT !.deletionTimestamp = TRUE]
                 ELSE [knight EXCEPT !.exists = FALSE]
    /\ klast' = NoKLast
    /\ flast' = NoFLast
    /\ UNCHANGED <<kchildren, fleet, fstreams, peer, missionVars, chainVars, dagSteps,
                   dagErr>>

\* The Deployment controller brings pods up or down.
DeploymentChanges ==
    /\ kchildren.deployment
    /\ \E n \in (0..kchildren.replicas) \ {kchildren.readyReplicas} :
        kchildren' = [kchildren EXCEPT !.readyReplicas = n]
    /\ klast' = NoKLast
    /\ flast' = NoFLast
    /\ UNCHANGED <<knight, fleet, fstreams, peer, missionVars, chainVars, dagSteps, dagErr>>

\* The Knight's runtime reports its cost.
CostReported ==
    /\ knight.exists
    /\ knight.status.phase = "Ready"
    /\ \E c \in CostTexts \ {knight.status.totalCost} :
        knight' = [knight EXCEPT !.status.totalCost = c]
    /\ klast' = NoKLast
    /\ flast' = NoFLast
    /\ UNCHANGED <<kchildren, fleet, fstreams, peer, missionVars, chainVars, dagSteps,
                   dagErr>>

\* Another Knight of the namespace appears, changes or goes.
PeerChanges ==
    /\ \E s \in PeerStates \ {peer} : peer' = s
    /\ klast' = NoKLast
    /\ flast' = NoFLast
    /\ UNCHANGED <<knight, kchildren, fleet, fstreams, missionVars, chainVars, dagSteps,
                   dagErr>>

\* kubectl edit roundtable: spec.suspended is flipped.
EditFleet ==
    /\ fleet.exists
    /\ ~fleet.deletionTimestamp
    /\ fleet.generation < MaxGeneration
    /\ fleet' = [fleet EXCEPT !.spec.suspended = ~@, !.generation = @ + 1]
    /\ klast' = NoKLast
    /\ flast' = NoFLast
    /\ UNCHANGED <<knight, kchildren, fstreams, peer, missionVars, chainVars, dagSteps,
                   dagErr>>

\* kubectl delete roundtable: nothing holds the object back unless it carries
\* a finalizer.
DeleteFleet ==
    /\ fleet.exists
    /\ ~fleet.deletionTimestamp
    /\ fleet' = IF fleet.finalizer THEN [fleet EXCEPT !.deletionTimestamp = TRUE]
                ELSE [fleet EXCEPT !.exists = FALSE]
    /\ klast' = NoKLast
    /\ flast' = NoFLast
    /\ UNCHANGED <<knight, kchildren, fstreams, peer, missionVars, chainVars, dagSteps,
                   dagErr>>

\* The Knight and RoundTable kinds at rest.
NoTable ==
    /\ knight = NeverCreated(NewKnight(FALSE))
    /\ kchildren = NoChildren
    /\ klast = NoKLast
    /\ fleet = NeverCreated(NewFleet(FALSE, "", FALSE))
    /\ fstreams = {}
    /\ peer = NoPeer
    /\ flast = NoFLast

\* The Mission kind at rest.
NoMissionKind ==
    /\ mission = NeverCreated(NewMission(MSolo))
    /\ mctl = IdleCtl
    /\ mknights = [k \in MKnightNames |-> NoKnight]
    /\ mchains = [c \in MChainNames |-> "absent"]
    /\ mbus = <<>>
    /\ mlast = NoMLast

\* The other kinds at rest, for the specifications of the Chain controller.
NoOtherKinds == NoMissionKind /\ NoTable

NewMeta == [exists |-> TRUE, deletionTimestamp |-> FALSE, finalizer |-> FALSE, generation |-> 1]

Init ==
    /\ spec \in ChainSpecs
    /\ meta = NewMeta
    /\ status = EmptyStatus
    /\ knights = KnightNames
    /\ bus = <<>>
    /\ results = [n \in StepNames |-> <<>>]
    /\ cronEntries = {}
    /\ now = 0
    /\ runId = 0
    /\ last = NoLast
    /\ retriedAt = [n \in StepNames |-> NoTime]
    /\ dagSteps = <<>>
    /\ dagErr = "unset"
    /\ NoOtherKinds

Next ==
    \/ Reconcile
    \/ CronFire
    \/ ManualTrigger
    \/ ResultArrives
    \/ Tick

Spec == Init /\ [][Next]_vars

\* ------------------------------------------------ lifecycle and spec edits
\* kubectl edit: the spec is replaced and the API server bumps the generation.
\* The edits of the model add or repair a cycle and add a dependency on an
\* unknown step.
SpecEdits ==
    {<<TwoStepCron, Cyclic>>, <<Cyclic, TwoStepCron>>, <<OneStepRetry, UnknownDep>>}

EditSpec ==
    \E e \in SpecEdits :
        /\ meta.exists
        /\ meta.generation < MaxGeneration
        /\ spec = e[1]
        /\ spec' = e[2]
        /\ meta' = [meta EXCEPT !.generation = @ + 1]
        /\ last' = Did("EditSpec")
        /\ UNCHANGED <<status, knights, bus, results, cronEntries, now, runId,
                       retriedAt, dagSteps, dagErr, kindVars>>

\* Spec edits and knight deletions during the life of a chain.
NextEdit ==
    \/ Next
    \/ EditSpec
    \/ DeleteKnight

SpecEdit == Init /\ [][NextEdit]_vars

\* kubectl edit: spec.suspended is flipped.
EditSuspended ==
    /\ meta.exists
    /\ meta.generation < MaxGeneration
    /\ spec' = [spec EXCEPT !.suspended = ~@]
    /\ meta' = [meta EXCEPT !.generation = @ + 1]
    /\ last' = Did("EditSuspended")
    /\ UNCHANGED <<status, knights, bus, results, cronEntries, now, runId,
                   retriedAt, dagSteps, dagErr, kindVars>>

\* Deletion of the chain.
NextLife ==
    \/ Next
    \/ DeleteChain

SpecLife == Init /\ [][NextLife]_vars

\* ------------------------------------------------ validateDAG on its own
DagStep(n, deps) == [name |-> n, dependsOn |-> deps]

DagStepChoices ==
    {DagStep(n, deps) : n \in StepNames,
                        deps \in SeqsUpTo(StepNames \cup {UnknownName}, MaxDeps)}

DagInputs(n) == UNION {[1..k -> DagStepChoices] : k \in 1..n}

InitDAG ==
    /\ dagSteps \in DagInputs(MaxDagSteps)
    /\ dagErr = "unset"
    /\ spec = OneStepRetry
    /\ meta = NewMeta
    /\ status = EmptyStatus
    /\ knights = KnightNames
    /\ bus = <<>>
    /\ results = [n \in StepNames |-> <<>>]
    /\ cronEntries = {}
    /\ now = 0
    /\ runId = 0
    /\ last = NoLast
    /\ retriedAt = [n \in StepNames |-> NoTime]
    /\ NoOtherKinds

CallValidateDAG ==
    /\ dagErr = "unset"
    /\ dagErr' = validateDAG(dagSteps)
    /\ UNCHANGED <<dagSteps, chainVars, kindVars>>

SpecDAG == InitDAG /\ [][CallValidateDAG]_vars

\* The Chain kind at rest.
ChainAtRest ==
    /\ spec = OneStepRetry
    /\ meta = NeverCreated(NewMeta)
    /\ status = EmptyStatus
    /\ knights = KnightNames
    /\ bus = <<>>
    /\ results = [n \in StepNames |-> <<>>]
    /\ cronEntries = {}
    /\ now = 0
    /\ runId = 0
    /\ last = NoLast
    /\ retriedAt = [n \in StepNames |-> NoTime]
    /\ dagSteps = <<>>
    /\ dagErr = "unset"

\* ------------------------------------------------- the Mission on its own
InitMission ==
    /\ mission \in {NewMission(sp) : sp \in MissionSpecs}
    /\ mctl = IdleCtl
    /\ mknights \in [MKnightNames -> MKnightStates]
    /\ \A k \in MKnightNames \ ReferredKnights(mission.spec) : mknights[k] = NoKnight
    /\ mchains \in [MChainNames -> {"absent", "Idle"}]
    /\ \A c \in MChainNames \ ReferredChains(mission.spec) : mchains[c] = "absent"
    /\ mbus = <<>>
    /\ mlast = NoMLast
    /\ NoTable
    /\ ChainAtRest

NextMission ==
    \/ MissionReconcile
    \/ MissionExpiredCleanup
    \/ KnightChanges
    \/ ChainAdvances
    \/ DeleteMission
    \/ Tick

SpecMission == InitMission /\ [][NextMission]_vars

\* The Mission under fair scheduling: a pass that can change something is
\* eventually run (requeues, the watch on the Mission, the periodic resync),
\* a pass that has persisted Expired goes on to its second update, and a
\* referenced Chain that is waiting or running is eventually moved on by its
\* own controller (a Running Chain ends at the latest by its timeout).
MissionFairness ==
    /\ WF_vars(MissionReconcile)
    /\ WF_vars(MissionExpiredCleanup)
    /\ WF_vars(ChainAdvances)

SpecMissionFair == InitMission /\ [][NextMission]_vars /\ MissionFairness

\* --------------------------------------------------- a Knight on its own
InitKnight ==
    /\ knight \in {NewKnight(FALSE), NewKnight(TRUE)}
    /\ kchildren = NoChildren
    /\ klast = NoKLast
    /\ fleet = NeverCreated(NewFleet(FALSE, "", FALSE))
    /\ fstreams = {}
    /\ peer = NoPeer
    /\ flast = NoFLast
    /\ NoMissionKind
    /\ ChainAtRest

NextKnight ==
    \/ KnightReconcile
    \/ EditKnight
    \/ DeleteKnightResource
    \/ DeploymentChanges
    \/ CostReported

SpecKnight == InitKnight /\ [][NextKnight]_vars

\* ------------------------- a RoundTable and the Knights of its namespace
FleetSpecs ==
    {NewFleet(FALSE, b, TRUE) : b \in BudgetTexts} \cup {NewFleet(TRUE, "", FALSE)}

InitFleet ==
    /\ knight = NewKnight(FALSE)
    /\ kchildren = NoChildren
    /\ klast = NoKLast
    /\ fleet \in FleetSpecs
    /\ fstreams = {}
    /\ peer = NoPeer
    /\ flast = NoFLast
    /\ NoMissionKind
    /\ ChainAtRest

NextFleet ==
    \/ FleetReconcile
    \/ EditFleet
    \/ DeleteFleet
    \/ KnightReconcile
    \/ DeploymentChanges
    \/ CostReported
    \/ PeerChanges

SpecFleet == InitFleet /\ [][NextFleet]_vars

\* ------------------------------------- one resource of one of the kinds
\* One object of one kind is created; the controllers are handed the objects
\* that were created.
\* TwoStepCron created with spec.suspended set.
SuspendedCron == [TwoStepCron EXCEPT !.suspended = TRUE]

KindChains == {TwoStepCron, Cyclic, SuspendedCron}

InitKinds ==
    \/ /\ spec \in KindChains
       /\ meta = NewMeta
       /\ status = EmptyStatus
       /\ knights = KnightNames
       /\ bus = <<>>
       /\ results = [n \in StepNames |-> <<>>]
       /\ cronEntries = {}
       /\ now = 0
       /\ runId = 0
       /\ last = NoLast
       /\ retriedAt = [n \in StepNames |-> NoTime]
       /\ dagSteps = <<>>
       /\ dagErr = "unset"
       /\ NoOtherKinds
    \/ InitMission
    \/ InitKnight
    \/ /\ fleet \in FleetSpecs
       /\ fstreams = {}
       /\ peer = NoPeer
       /\ flast = NoFLast
       /\ knight = NeverCreated(NewKnight(FALSE))
       /\ kchildren = NoChildren
       /\ klast = NoKLast
       /\ NoMissionKind
       /\ ChainAtRest

NextKinds ==
    \/ Created(meta) /\ (Next \/ EditSpec \/ EditSuspended \/ DeleteChain)
    \/ Created(mission) /\ NextMission
    \/ Created(knight) /\ NextKnight
    \/ Created(fleet) /\ (FleetReconcile \/ EditFleet \/ DeleteFleet \/ PeerChanges)

SpecKinds == InitKinds /\ [][NextKinds]_vars

\* ==================================================================
\* Properties
\* ==================================================================
StepStatusOf(st, n) == st.stepStatuses[LastIdx(st.stepStatuses, n)]
StepSpecOf(sp, n) == sp.steps[LastIdx(sp.steps, n)]
HasStatus(st, n) == LastIdx(st.stepStatuses, n) # 0

\* The indices of the task messages the step from the unprimed to the primed
\* state put on the bus.
NewTasks == (Len(bus) + 1)..Len(bus')

\* The transitive closure of a relation over names.
RECURSIVE TC(_)
TC(R) ==
    LET R2 == R \cup {<<p[1][1], p[2][2]>> : p \in {q \in R \X R : q[1][2] = q[2][1]}}
    IN  IF R2 = R THEN R ELSE TC(R2)

\* Reference definitions for a step list: its dependency graph has the step
\* names as nodes and an edge from a step to each name in its dependsOn.
RefEdges(steps) ==
    UNION {{<<steps[i].name, steps[i].dependsOn[j]>> : j \in 1..Len(steps[i].dependsOn)} :
            i \in 1..Len(steps)}

RefUnknown(steps) == \E e \in RefEdges(steps) : e[2] \notin NamesOf(steps)

RefCyclic(steps) == \E n \in NamesOf(steps) : <<n, n>> \in TC(RefEdges(steps))

RefValidate(steps) ==
    IF RefUnknown(steps) THEN "unknown step"
    ELSE IF RefCyclic(steps) THEN "cycle"
    ELSE ""

\* A dependency that lets its dependents start.
DepSatisfied(sp, st, d) ==
    /\ HasStatus(st, d)
    /\ \/ StepStatusOf(st, d).phase = "Succeeded"
       \/ /\ StepStatusOf(st, d).phase = "Failed"
          /\ StepSpecOf(sp, d).continueOnFailure

\* ------------------------------------------------------------------ C1
\* C1 (DAG soundness): whenever an operation puts a task message for step S on
\* the bus, every step named in S.dependsOn is Succeeded, or Failed with
\* continueOnFailure, in the state the operation leaves.
DagSoundness ==
    [][\A k \in NewTasks :
          \A j \in 1..Len(StepSpecOf(spec, bus'[k].stepName).dependsOn) :
              DepSatisfied(spec, status',
                           StepSpecOf(spec, bus'[k].stepName).dependsOn[j])]_vars

\* C1 witness: the fan-in step c (listed first in the spec, depending on a and
\* b) has been dispatched.
DagSoundnessWitness ==
    /\ spec = FanIn
    /\ \E k \in 1..Len(bus) : bus[k].stepName = "c"

\* ------------------------------------------------------------------ C2
\* A spec that must not run, by the reference definitions.
RefInvalid(sp, ks) ==
    \/ RefUnknown(sp.steps)
    \/ RefCyclic(sp.steps)
    \/ \E i \in 1..Len(sp.steps) : sp.steps[i].knightRef \notin ks

\* C2 (no dispatch on invalid): while the spec has a cycle, an unknown
\* dependency or a missing knight, no operation publishes a task or moves a step
\* out of Pending, whatever the phase; and every Reconcile of the (not deleted)
\* chain records Valid=False, polls nothing and returns before the execution
\* pass.
NoDispatchOnInvalid ==
    [][(RefInvalid(spec, knights) /\ spec' = spec /\ knights' = knights) =>
          /\ bus' = bus
          /\ \A i \in 1..Len(status.stepStatuses) :
                status.stepStatuses[i].phase = "Pending" =>
                    \A j \in 1..Len(status'.stepStatuses) :
                        status'.stepStatuses[j].name = status.stepStatuses[i].name =>
                            status'.stepStatuses[j].phase = "Pending"
          /\ (last'.op = "Reconcile" /\ meta.exists /\ ~meta.deletionTimestamp) =>
                /\ status'.valid \in {"InvalidKnightRef", "CyclicDependency"}
                /\ status'.phase = status.phase
                /\ status'.stepStatuses = status.stepStatuses
                /\ last'.polled = {}
                /\ last'.published = {}]_vars

\* C2 witness: a chain that is Running (started by its cron entry) with a cyclic
\* spec has just been reconciled.
NoDispatchOnInvalidWitness ==
    /\ RefCyclic(spec.steps)
    /\ status.phase = "Running"
    /\ status.lastScheduledAt # NoTime
    /\ last.op = "Reconcile"
    /\ status.valid = "CyclicDependency"

\* ------------------------------------------------------------------ C3
RetryLimit(sp) == IF sp.retryPolicy.set THEN sp.retryPolicy.maxRetries ELSE 0

\* C3 (retry cap): a step's retries never exceed retryPolicy.maxRetries (0
\* without a policy); a Running step that has used up its retries is not reset
\* to Pending, and a Failed step stays Failed for the rest of the run.
RetryCap ==
    /\ [](\A i \in 1..Len(status.stepStatuses) :
            status.stepStatuses[i].retries <= RetryLimit(spec))
    /\ [][\A i \in 1..Len(status.stepStatuses) :
            (/\ runId' = runId
             /\ \/ status.stepStatuses[i].phase = "Failed"
                \/ /\ status.stepStatuses[i].phase = "Running"
                   /\ status.stepStatuses[i].retries >= RetryLimit(spec))
            => /\ status'.stepStatuses[i].phase # "Pending"
               /\ status'.stepStatuses[i].retries = status.stepStatuses[i].retries
               /\ status.stepStatuses[i].phase = "Failed"
                    => status'.stepStatuses[i].phase = "Failed"]_vars

\* C3 witness: a step has failed on an error result with all its retries used.
RetryCapWitness ==
    /\ spec.retryPolicy.set
    /\ \E i \in 1..Len(status.stepStatuses) :
          /\ status.stepStatuses[i].retries = spec.retryPolicy.maxRetries
          /\ status.stepStatuses[i].retries > 0
          /\ status.stepStatuses[i].phase = "Failed"
          /\ status.stepStatuses[i].error = "boom"

\* ------------------------------------------------------------------ C4
\* C4 (retry backoff): a task published for a step that has been retried
\* (retries > 0) is published at least retryPolicy.backoffSeconds after the
\* failed attempt completed; in particular not in the pass that consumed the
\* error result.
RetryBackoff ==
    [][\A k \in NewTasks :
          (spec.retryPolicy.set /\ StepStatusOf(status', bus'[k].stepName).retries > 0)
          => /\ retriedAt'[bus'[k].stepName] # NoTime
             /\ now - retriedAt'[bus'[k].stepName] >= spec.retryPolicy.backoffSeconds]_vars

\* ------------------------------------------------------------------ C5
\* The result subject of step a holds exactly: error, error, success "ok".
ErrorErrorOk(res) ==
    /\ Len(res["a"]) = 3
    /\ res["a"][1].error = "boom"
    /\ res["a"][2].error = "boom"
    /\ res["a"][3].error = ""
    /\ res["a"][3].output = "ok"

\* C5 (retry-then-succeed): a one-step chain with maxRetries = 2 whose result
\* subject received an error, a second error and then the success "ok", and
\* whose run has ended other than by a timeout, ended with retries = 2, the
\* step Succeeded with output "ok" and the chain Succeeded.
RetryThenSucceed ==
    (/\ spec = OneStepRetry
     /\ ErrorErrorOk(results)
     /\ status.phase \in {"Succeeded", "Failed"}
     /\ status.complete # "Timeout"
     /\ status.stepStatuses[1].error # "step timed out")
    => /\ status.stepStatuses[1].retries = 2
       /\ status.stepStatuses[1].phase = "Succeeded"
       /\ status.stepStatuses[1].output = "ok"
       /\ status.phase = "Succeeded"

\* ------------------------------------------------------------------ C6
ContinueAllowed(sp, ss) == ss.phase = "Failed" /\ StepSpecOf(sp, ss.name).continueOnFailure

\* C6 (termination outcome): a Succeeded chain has only steps that are
\* Succeeded or Failed with continueOnFailure; a chain Failed by the
\* termination rule has a step Failed without continueOnFailure, no Running
\* and no Pending step, and the pass that failed it turned every step it found
\* Pending into Skipped (or Failed, on a render error).
TerminationOutcome ==
    /\ [](status.phase = "Succeeded" =>
            \A i \in 1..Len(status.stepStatuses) :
                \/ status.stepStatuses[i].phase = "Succeeded"
                \/ ContinueAllowed(spec, status.stepStatuses[i]))
    /\ []((status.phase = "Failed" /\ status.complete = "Failed") =>
            /\ \E i \in 1..Len(status.stepStatuses) :
                  /\ status.stepStatuses[i].phase = "Failed"
                  /\ ~ContinueAllowed(spec, status.stepStatuses[i])
            /\ \A i \in 1..Len(status.stepStatuses) :
                  status.stepStatuses[i].phase \notin {"Pending", "Running"})
    /\ [][(status.phase = "Running" /\ status'.phase = "Failed"
           /\ status'.complete = "Failed") =>
            \A i \in 1..Len(status.stepStatuses) :
                status.stepStatuses[i].phase = "Pending" =>
                    status'.stepStatuses[i].phase \in {"Skipped", "Failed"}]_vars

\* C6 witness: a chain ended Succeeded although one of its steps Failed (with
\* continueOnFailure).
TerminationOutcomeWitness ==
    /\ status.phase = "Succeeded"
    /\ \E i \in 1..Len(status.stepStatuses) : status.stepStatuses[i].phase = "Failed"

\* ------------------------------------------------------------------ C7
RunTimedOut == status.startedAt # NoTime /\ now - status.startedAt > spec.timeout

\* C7 (overall timeout): a Reconcile of a Running chain with
\* now - startedAt > spec.timeout sets phase Failed with Complete reason
\* Timeout, adds exactly one to RunsFailed, publishes nothing, polls nothing and
\* leaves the step statuses alone; a Failed chain stays Failed, publishes
\* nothing and is not counted again until a new run starts.
OverallTimeout ==
    /\ [][(status.phase = "Running" /\ RunTimedOut /\ last'.op = "Reconcile") =>
            /\ status'.phase = "Failed"
            /\ status'.complete = "Timeout"
            /\ status'.runsFailed = status.runsFailed + 1
            /\ status'.runsCompleted = status.runsCompleted
            /\ status'.stepStatuses = status.stepStatuses
            /\ bus' = bus
            /\ last'.polled = {}]_vars
    /\ [][(status.phase = "Failed" /\ runId' = runId) =>
            /\ status'.phase = "Failed"
            /\ status'.runsFailed = status.runsFailed
            /\ bus' = bus]_vars

\* C7 witness: a pass has just failed a run on the overall timeout while a step
\* was still Running.
OverallTimeoutWitness ==
    /\ last.op = "Reconcile"
    /\ last.branch = "timeout"
    /\ status.phase = "Failed"
    /\ status.complete = "Timeout"
    /\ \E i \in 1..Len(status.stepStatuses) : status.stepStatuses[i].phase = "Running"

\* ------------------------------------------------------------------ C8
StepTimeoutElapsed(ss) ==
    /\ ss.phase = "Running"
    /\ ss.startedAt # NoTime
    /\ now - ss.startedAt > StepSpecOf(spec, ss.name).timeout

\* C8 (step timeout is not retried): an execution pass that finds a Running
\* step past its timeout marks it Failed with the timeout error and
\* completedAt = now, leaves its retries alone and does not poll for it; the
\* step then stays as it is for the rest of the run.
StepTimeoutFinal ==
    /\ [][\A i \in 1..Len(status.stepStatuses) :
            (/\ last'.op = "Reconcile"
             /\ status.phase = "Running"
             /\ ~RunTimedOut
             /\ StepTimeoutElapsed(status.stepStatuses[i]))
            => /\ status'.stepStatuses[i].phase = "Failed"
               /\ status'.stepStatuses[i].error = "step timed out"
               /\ status'.stepStatuses[i].completedAt = now
               /\ status'.stepStatuses[i].retries = status.stepStatuses[i].retries
               /\ status.stepStatuses[i].name \notin last'.polled]_vars
    /\ [][\A i \in 1..Len(status.stepStatuses) :
            (/\ runId' = runId
             /\ status.stepStatuses[i].phase = "Failed"
             /\ status.stepStatuses[i].error = "step timed out")
            => status'.stepStatuses[i] = status.stepStatuses[i]]_vars

\* C8 witness: a step of a chain with a retry policy, with retries left, has
\* Failed on its timeout.
StepTimeoutFinalWitness ==
    /\ spec.retryPolicy.set
    /\ \E i \in 1..Len(status.stepStatuses) :
          /\ status.stepStatuses[i].phase = "Failed"
          /\ status.stepStatuses[i].error = "step timed out"
          /\ status.stepStatuses[i].retries < spec.retryPolicy.maxRetries

\* ------------------------------------------------------------------ C9
\* C9 (validateDAG against the reference): for every step list over the name
\* set, validateDAG returns the unknown-step error iff some dependsOn entry
\* names no step, otherwise the cycle error iff the dependsOn graph has a
\* directed cycle, and succeeds otherwise.
ValidateDAGMatchesReference ==
    dagErr # "unset" => dagErr = RefValidate(dagSteps)

\* ------------------------------------------------------------------ C10
\* C10 (reason UnknownStep): after a Reconcile of a chain whose knights all
\* exist and in which some dependsOn names an unknown step, the condition Valid
\* is False with reason UnknownStep.
UnknownStepReason ==
    (/\ last.op = "Reconcile"
     /\ meta.exists
     /\ validateKnightRefs(spec, knights)
     /\ RefUnknown(spec.steps))
    => status.valid = "UnknownStep"

\* ------------------------------------------------------------------ C11
HasBadPart(task) == \E i \in 1..Len(task) : task[i].kind = "bad"

DependsOnName(step, n) == \E j \in 1..Len(step.dependsOn) : step.dependsOn[j] = n

\* The text the claim expects for part i of the task of step `step`, read from
\* the status st.
ExpectedPart(sp, st, part) ==
    CASE part.kind = "lit" -> part.arg
      [] part.kind = "input" -> sp.input
      [] part.kind = "output" -> StepStatusOf(st, part.arg).output
      [] part.kind = "error" -> StepStatusOf(st, part.arg).error
      [] OTHER -> "no task"

\* C11 (template data flow): every task a pass publishes is the step's task
\* with literal text unchanged, .Input replaced by spec.input and the Output
\* and Error of each dependency replaced by what the status of the run records
\* for it; a step whose template fails to render leaves Pending only as Failed
\* with completedAt = now and the render error (or Skipped), and no task is
\* ever published for it.
TemplateDataFlow ==
    /\ [][\A k \in NewTasks :
            LET step == StepSpecOf(spec, bus'[k].stepName)
            IN  /\ ~HasBadPart(step.task)
                /\ Len(bus'[k].task) = Len(step.task)
                /\ \A i \in 1..Len(step.task) :
                      (step.task[i].kind \in {"output", "error"}
                          => DependsOnName(step, step.task[i].arg))
                      => bus'[k].task[i] = ExpectedPart(spec, status', step.task[i])]_vars
    /\ [][\A i \in 1..Len(status.stepStatuses) :
            (/\ runId' = runId
             /\ HasBadPart(StepSpecOf(spec, status.stepStatuses[i].name).task)
             /\ status.stepStatuses[i].phase = "Pending"
             /\ status'.stepStatuses[i].phase \notin {"Pending", "Skipped"})
            => /\ status'.stepStatuses[i].phase = "Failed"
               /\ status'.stepStatuses[i].completedAt = now
               /\ status'.stepStatuses[i].error = "template render error"
               /\ status.stepStatuses[i].name \notin last'.published]_vars

\* C11 witness: step b of the two-step chain has been sent "consume: " followed
\* by the input and by the output recorded for a.
TemplateDataFlowWitness ==
    /\ spec = TwoStepCron
    /\ HasStatus(status, "a")
    /\ StepStatusOf(status, "a").output = "ok"
    /\ \E k \in 1..Len(bus) :
          /\ bus[k].stepName = "b"
          /\ bus[k].task = <<"consume: ", "seed", "ok">>

\* ------------------------------------------------------------------
\* C12  Finalizer monotonicity: the finalizer of a Knight, Chain or Mission
\* is removed only by a reconcile pass of its controller that observes
\* deletionTimestamp, for a Chain with the cron entry of its key removed by
\* the same pass; a Chain that is being deleted or is gone and carries no
\* finalizer has no cron entry registered for its key.
FinalizerMonotonicity ==
    [][/\ (meta.finalizer /\ ~meta'.finalizer)
            => /\ meta.deletionTimestamp
               /\ last'.op = "Reconcile"
               /\ ChainKey \notin cronEntries'
       /\ (mission.finalizer /\ ~mission'.finalizer)
            => (mission.deletionTimestamp /\ mlast'.op = "MissionReconcile")
       /\ (knight.finalizer /\ ~knight'.finalizer)
            => (knight.deletionTimestamp /\ klast'.op = "KnightReconcile")
       /\ (Created(meta') /\ (meta'.deletionTimestamp \/ ~meta'.exists) /\ ~meta'.finalizer)
            => ChainKey \notin cronEntries']_vars

\* A scheduled chain that was initialised (so its cron entry was registered)
\* has gone through the deletion path.
FinalizerMonotonicityWitness ==
    /\ Created(meta)
    /\ ~meta.exists
    /\ spec.schedule # ""
    /\ ~spec.suspended
    /\ status.phase # ""
    /\ last.op = "Reconcile"
    /\ last.branch = "deleting"
    /\ ChainKey \notin cronEntries

\* ------------------------------------------------------------------
\* C13  After a reconcile pass that found a not-deleted Knight, Chain,
\* Mission or RoundTable and returned without error, the resource carries
\* the finalizer of its controller.
FinalizerOnFirstSight ==
    /\ (last.op = "Reconcile" /\ last.branch \notin {"notfound", "deleting", "panic"})
            => meta.finalizer
    /\ (mlast.op = "MissionReconcile" /\ ~mlast.err
            /\ mlast.branch \notin {"notfound", "deleting"})
            => mission.finalizer
    /\ (klast.op = "KnightReconcile" /\ ~klast.err
            /\ klast.branch \notin {"notfound", "deleting"})
            => knight.finalizer
    /\ (flast.op = "FleetReconcile" /\ ~flast.err /\ flast.branch # "notfound")
            => fleet.finalizer

\* ------------------------------------------------------------------
\* C14  Generation monotonicity: status.observedGeneration never exceeds
\* metadata.generation, and after a reconcile pass that found the resource
\* and returned without error the two are equal, for each of the four kinds.
GenerationMonotonicity ==
    /\ status.observedGeneration <= meta.generation
    /\ mission.status.observedGeneration <= mission.generation
    /\ knight.status.observedGeneration <= knight.generation
    /\ fleet.status.observedGeneration <= fleet.generation
    /\ (last.op = "Reconcile" /\ last.branch \notin {"notfound", "deleting", "panic"})
            => status.observedGeneration = meta.generation
    /\ (mlast.op = "MissionReconcile" /\ ~mlast.err
            /\ mlast.branch \notin {"notfound", "deleting"})
            => mission.status.observedGeneration = mission.generation
    /\ (klast.op = "KnightReconcile" /\ ~klast.err
            /\ klast.branch \notin {"notfound", "deleting"})
            => knight.status.observedGeneration = knight.generation
    /\ (flast.op = "FleetReconcile" /\ ~flast.err /\ flast.branch # "notfound")
            => fleet.status.observedGeneration = fleet.generation

\* ------------------------------------------------------------------
\* C15  Reconcile idempotence: from any reachable state, two reconcile passes
\* in a row with nothing else changing in between (every poll and publish
\* succeeding) leave, after the second pass, the status the first pass left,
\* timestamps aside, and the second pass creates no child object, registers
\* no cron entry and publishes nothing.
NoStepTimes(ss) ==
    [i \in 1..Len(ss) |-> [ss[i] EXCEPT !.startedAt = NoTime, !.completedAt = NoTime]]

NoTimes(st) ==
    [st EXCEPT !.startedAt = NoTime, !.completedAt = NoTime, !.lastScheduledAt = NoTime,
               !.stepStatuses = NoStepTimes(@)]

ChainPass(m, st, cron, nextId) ==
    ReconcileOutcome(m, spec, st, knights, results, cron, PollableNames(st, results),
                     PublishableNames(st), now, nextId)

ChainIdempotent ==
    LET o1 == ChainPass(meta, status, cronEntries, Len(bus) + 1)
        o2 == ChainPass(o1.meta, o1.status, o1.cron, Len(bus) + Len(o1.pubs) + 1)
    IN  (meta.exists /\ ~meta.deletionTimestamp /\ o1.branch # "panic" /\ o2.branch # "panic")
            => /\ NoTimes(o2.status) = NoTimes(o1.status)
               /\ o2.cron = o1.cron
               /\ o2.pubs = <<>>

\* A whole Mission pass, the second status update of the TTL path included.
MissionPass(m, chs) ==
    LET o == MissionOutcome(m, mknights, chs, now, TRUE)
    IN  IF o.more THEN [o EXCEPT !.mission.status.phase = "CleaningUp"] ELSE o

NoMissionTimes(st) ==
    [st EXCEPT !.startedAt = NoTime, !.completedAt = NoTime, !.expiresAt = NoTime]

MissionIdempotent ==
    LET o1 == MissionPass(mission, mchains)
        o2 == MissionPass(o1.mission, o1.chains)
    IN  (mission.exists /\ ~mission.deletionTimestamp)
            => /\ NoMissionTimes(o2.mission.status) = NoMissionTimes(o1.mission.status)
               /\ o2.chains = o1.chains
               /\ o2.pubs = <<>>

KnightIdempotent ==
    LET o1 == KnightOutcome(knight, kchildren, "none")
        o2 == KnightOutcome(o1.knight, o1.children, "none")
    IN  (knight.exists /\ ~knight.deletionTimestamp)
            => /\ o2.knight.status = o1.knight.status
               /\ o2.children = o1.children

FleetIdempotent ==
    LET o1 == FleetOutcome(fleet, knight, peer, mission, fstreams, TRUE, TRUE)
        o2 == FleetOutcome(o1.fleet, knight, peer, mission, o1.streams, TRUE, TRUE)
    IN  fleet.exists => (o2.fleet.status = o1.fleet.status /\ o2.streams = o1.streams)

ReconcileIdempotence ==
    /\ ChainIdempotent
    /\ MissionIdempotent
    /\ KnightIdempotent
    /\ FleetIdempotent

\* ------------------------------------------------------------------
\* C16  Mission phase machine: the phase of a Mission changes only along the
\* edges (empty)->Assembling, Assembling->Briefing, Assembling->Failed,
\* Briefing->Active, Active->Succeeded, Active->Failed, Succeeded->CleaningUp,
\* Failed->CleaningUp, any phase but CleaningUp->Expired and
\* Expired->CleaningUp; it never moves backwards, and a Mission that exists
\* never leaves CleaningUp.
MissionPhases ==
    {"", "Assembling", "Briefing", "Active", "Succeeded", "Failed", "Expired", "CleaningUp"}

MissionEdges ==
    {<<"", "Assembling">>, <<"Assembling", "Briefing">>, <<"Assembling", "Failed">>,
     <<"Briefing", "Active">>, <<"Active", "Succeeded">>, <<"Active", "Failed">>,
     <<"Succeeded", "CleaningUp">>, <<"Failed", "CleaningUp">>, <<"Expired", "CleaningUp">>}
    \cup {<<p, "Expired">> : p \in MissionPhases \ {"CleaningUp", "Expired"}}

PhaseRank(p) ==
    IF p = "" THEN 0
    ELSE IF p = "Assembling" THEN 1
    ELSE IF p = "Briefing" THEN 2
    ELSE IF p = "Active" THEN 3
    ELSE IF p \in {"Succeeded", "Failed"} THEN 4
    ELSE IF p = "Expired" THEN 5
    ELSE 6

MissionPhaseMachine ==
    [][/\ mission'.status.phase \in MissionPhases
       /\ mission'.status.phase # mission.status.phase
            => /\ <<mission.status.phase, mission'.status.phase>> \in MissionEdges
               /\ PhaseRank(mission'.status.phase) > PhaseRank(mission.status.phase)
       /\ (mission.status.phase = "CleaningUp" /\ mission'.exists)
            => mission'.status.phase = "CleaningUp"]_vars

\* A mission went all the way: assembled, briefed, succeeded, cleaning up.
MissionPhaseMachineWitness ==
    /\ mission.exists
    /\ mission.status.phase = "CleaningUp"
    /\ mission.status.knightsReady = "AllKnightsReady"
    /\ mission.status.briefingPublished = "Published"
    /\ mission.status.complete = "Succeeded"

\* ------------------------------------------------------------------
\* C17  One step per reconcile: a Mission reconcile pass persists at most one
\* phase transition (a pass that detects TTL expiry persists Expired and
\* leaves the move to CleaningUp to a later pass).
OneStepPerReconcile == mctl.transitions <= 1

\* ------------------------------------------------------------------
\* C18  Assembling gate: a Mission moves from Assembling to Briefing only in
\* a pass in which every non-ephemeral knight of the spec exists with phase
\* Ready and ready=true and at least one knight is non-ephemeral; a pass that
\* finds an Assembling Mission (not being deleted, TTL not expired) with a
\* referenced knight missing leaves it in Assembling with condition
\* KnightsReady=False and returns no error.
NonEphemeral(sp) == {i \in 1..Len(sp.knights) : ~sp.knights[i].ephemeral}

GateOpen(sp, ks) ==
    /\ NonEphemeral(sp) # {}
    /\ \A i \in NonEphemeral(sp) :
        /\ ks[sp.knights[i].name].exists
        /\ ks[sp.knights[i].name].phase = "Ready"
        /\ ks[sp.knights[i].name].ready

AgentMissing(sp, ks) == \E i \in NonEphemeral(sp) : ~ks[sp.knights[i].name].exists

\* The step is the start of a Mission reconcile pass.
MissionPassStep == mlast'.op = "MissionReconcile" /\ now' = now

\* The pass finds the Mission in Assembling and runs reconcileAssembling.
AssemblingPass ==
    /\ MissionPassStep
    /\ mission.exists
    /\ ~mission.deletionTimestamp
    /\ mission.status.phase = "Assembling"
    /\ ~(mission.status.expiresAt # NoTime /\ now > mission.status.expiresAt)

KnightsReadyFalse(st) == st.knightsReady \in {"KnightNotFound", "NoValidKnights"}

AssemblingGate ==
    [][/\ (mission.status.phase = "Assembling" /\ mission'.status.phase = "Briefing")
            => GateOpen(mission.spec, mknights)
       /\ (AssemblingPass /\ AgentMissing(mission.spec, mknights))
            => /\ mission'.status.phase = "Assembling"
               /\ KnightsReadyFalse(mission'.status)
               /\ ~mlast'.err]_vars

\* The mission with two knights passed the gate.
AssemblingGateWitness ==
    /\ mission.spec = MPair
    /\ mission.status.phase = "Briefing"
    /\ mlast.branch = "assembled"
    /\ GateOpen(mission.spec, mknights)

\* A pass left a mission in Assembling because a knight was missing.
AssemblingGateMissing ==
    /\ mission.spec = MPair
    /\ mission.status.phase = "Assembling"
    /\ mlast.branch = "knight-missing"
    /\ mknights[Lancelot] = KnightReady
    /\ KnightsReadyFalse(mission.status)

\* ------------------------------------------------------------------
\* C19  Ephemeral knights do not count for the readiness gate: a pass that
\* finds an Assembling Mission whose non-ephemeral knights, at least one,
\* are all Ready moves it to Briefing, whether or not the spec also lists
\* ephemeral knights.
EphemeralNotGating ==
    [][(AssemblingPass /\ GateOpen(mission.spec, mknights))
            => mission'.status.phase = "Briefing"]_vars

\* ------------------------------------------------------------------
\* C20  A pass that finds an Assembling Mission all of whose knights are
\* ephemeral moves it to Failed with condition KnightsReady=False, reason
\* NoValidKnights.
AllEphemeralFails ==
    [][(AssemblingPass /\ Len(mission.spec.knights) > 0 /\ NonEphemeral(mission.spec) = {})
            => /\ mission'.status.phase = "Failed"
               /\ mission'.status.knightsReady = "NoValidKnights"]_vars

\* ------------------------------------------------------------------
\* C21  Briefing gate: a Mission enters Active only from Briefing and, when
\* spec.briefing is not empty, only in a pass that published the briefing
\* envelope on <prefix>.briefing; a pass that finds a Briefing Mission with a
\* non-empty briefing either publishes and moves it to Active, or (the bus
\* connection or the publish failing) publishes nothing, leaves it in Briefing
\* with BriefingPublished=False and asks for a requeue after 5 s without an
\* error; a Mission with an empty briefing moves Briefing->Active and nothing
\* is published.
\* The pass finds the Mission in Briefing and runs reconcileBriefing.
BriefingPass ==
    /\ MissionPassStep
    /\ mission.exists
    /\ ~mission.deletionTimestamp
    /\ mission.status.phase = "Briefing"
    /\ ~(mission.status.expiresAt # NoTime /\ now > mission.status.expiresAt)

\* The step appends the briefing envelope to the bus.
EnvelopePublished ==
    /\ Len(mbus') > Len(mbus)
    /\ SubSeq(mbus', 1, Len(mbus)) = mbus
    /\ mbus'[Len(mbus) + 1].subject = "briefing"

BriefingGatePublished ==
    /\ mission.spec.briefing # ""
    /\ mission.status.phase = "Active"
    /\ mbus # <<>>
    /\ mbus[1].subject = "briefing"

\* A mission without a briefing reached Active, nothing on the bus.
BriefingGateSilent ==
    /\ mission.spec.briefing = ""
    /\ mission.status.phase = "Active"
    /\ mission.status.briefingPublished = "NoBriefing"
    /\ mbus = <<>>

\* ------------------------------------------------------------------
\* C22  Active outcome (amended): an Active Mission becomes Succeeded only in
\* a pass in which it references no pipelines or every referenced Setup- or
\* Active-tagged Pipeline has phase Succeeded; a pass that finds an Active
\* Mission one of whose Setup- or Active-tagged Pipelines has phase Failed or
\* does not exist makes it Failed; a pass (before the timeout) that finds all
\* of them existing, none Failed and one neither Succeeded nor Failed leaves
\* the Mission Active.
\* The pass finds the Mission in Active and runs reconcileActive.
ActivePass ==
    /\ MissionPassStep
    /\ mission.exists
    /\ ~mission.deletionTimestamp
    /\ mission.status.phase = "Active"
    /\ ~(mission.status.expiresAt # NoTime /\ now > mission.status.expiresAt)

\* The phases ("absent": no such resource) of the Setup- and Active-tagged
\* pipelines the mission refers to.
WatchedPhases ==
    {mchains[mission.spec.chains[i].name] :
        i \in {j \in 1..Len(mission.spec.chains) :
                    mission.spec.chains[j].phase \in {"Setup", "Active"}}}

BeforeTimeout == now - mission.status.startedAt <= mission.spec.timeout

SucceedsOnlyWhenAllSucceeded ==
    (mission.status.phase = "Active" /\ mission'.status.phase = "Succeeded")
        => /\ ActivePass
           /\ Len(mission.spec.chains) = 0 \/ WatchedPhases \subseteq {"Succeeded"}

ActiveOutcomeWitness ==
    /\ mission.spec = MChains
    /\ mission.status.phase = "Succeeded"
    /\ mlast.branch = "chains-complete"
    /\ mchains["main"] = "Succeeded"

ActiveOutcomeWaiting ==
    /\ mission.spec = MChains
    /\ mission.status.phase = "Active"
    /\ mlast.branch = "active"
    /\ mchains["main"] = "Running"

\* ------------------------------------------------------------------
\* C23  Active timeout: a pass that finds an Active Mission with
\* now - startedAt > spec.timeout sets phase Failed with Complete reason
\* Timeout, whatever the phases of the referenced pipelines (also when all of
\* them are Succeeded, and when the Mission refers to none).
ActiveTimeout ==
    [][(ActivePass /\ now - mission.status.startedAt > mission.spec.timeout)
            => /\ mission'.status.phase = "Failed"
               /\ mission'.status.complete = "Timeout"
               /\ mission'.status.completedAt = now]_vars

\* A mission timed out although its Active pipeline had succeeded.
ActiveTimeoutWitness ==
    /\ mission.spec = MChains
    /\ mission.status.phase = "Failed"
    /\ mission.status.complete = "Timeout"
    /\ mlast.branch = "timeout"
    /\ mchains["main"] = "Succeeded"
    /\ now - mission.status.startedAt > mission.spec.timeout

\* ------------------------------------------------------------------
\* C24  TTL expiry: status.expiresAt is set once, by the pass that initialises
\* the status, to startedAt + spec.ttl and never changes afterwards; a pass at
\* a time after expiresAt that finds a Mission (not being deleted) in phase
\* Assembling, Briefing, Active, Succeeded or Failed sets phase Expired and
\* does nothing of that phase's handler: nothing is published and no Pipeline
\* is written.
ExpiresAtSetOnce ==
    /\ (mission.status.expiresAt = NoTime /\ mission'.status.expiresAt # NoTime)
            => /\ mlast'.branch = "init"
               /\ mission'.status.startedAt = now
               /\ mission'.status.expiresAt = mission'.status.startedAt + mission.spec.ttl
    /\ mission.status.expiresAt # NoTime
            => mission'.status.expiresAt = mission.status.expiresAt

\* The pass finds a Mission past its TTL in a phase other than CleaningUp.
PastTTLPass ==
    /\ MissionPassStep
    /\ mission.exists
    /\ ~mission.deletionTimestamp
    /\ mission.status.phase \in {"Assembling", "Briefing", "Active", "Succeeded", "Failed"}
    /\ mission.status.expiresAt # NoTime
    /\ now > mission.status.expiresAt

PastTTLWithDelete ==
    /\ mission.exists
    /\ mission.spec.cleanupPolicy = "Delete"
    /\ mission.status.expiresAt # NoTime
    /\ now > mission.status.expiresAt

S4Order == <<"", "Assembling", "Briefing", "Active", "Succeeded", "CleaningUp">>

S4Mission ==
    /\ mission.exists
    /\ mission.spec = MSolo
    /\ mknights[Lancelot] = KnightReady

MissionTTLScenario ==
    [][S4Mission
        => /\ (/\ mission'.status.phase # mission.status.phase
               /\ mission'.status.complete \notin {"Timeout", "Expired"})
                => \E i \in 1..(Len(S4Order) - 1) :
                        /\ mission.status.phase = S4Order[i]
                        /\ mission'.status.phase = S4Order[i + 1]
           /\ (mlast'.deleted /\ mission.status.complete = "Succeeded")
                => mission.status.phase = "Expired"]_vars

\* The mission of the scenario was deleted by the controller from CleaningUp.
MissionTTLScenarioEnd ==
    /\ mission.spec = MSolo
    /\ mission.status.complete = "Succeeded"
    /\ mission.status.phase = "CleaningUp"
    /\ mlast.deleted

\* ------------------------------------------------------------------
\* C27  Self-delete precondition: the controller issues the delete of a
\* Mission only in a pass that finds it in phase CleaningUp with
\* cleanupPolicy=Delete, at a time after expiresAt, and with no referenced
\* Teardown Pipeline in phase Idle or Running; it never deletes a Mission with
\* cleanupPolicy=Retain, and a pass that finds such a Mission in CleaningUp
\* with no Teardown Pipeline Idle or Running sets CleanupComplete=True.
TeardownPhases ==
    {mchains[mission.spec.chains[i].name] :
        i \in {j \in 1..Len(mission.spec.chains) :
                    mission.spec.chains[j].phase = "Teardown"}}

TeardownPending == TeardownPhases \cap {"Idle", "Running"} # {}

\* The pass finds the Mission in CleaningUp and runs reconcileCleaningUp.
CleaningUpPass ==
    /\ MissionPassStep
    /\ mission.exists
    /\ ~mission.deletionTimestamp
    /\ mission.status.phase = "CleaningUp"

SelfDeletePrecondition ==
    [][/\ mlast'.deleted
            => /\ CleaningUpPass
               /\ mission.spec.cleanupPolicy = "Delete"
               /\ mission.status.expiresAt # NoTime
               /\ now > mission.status.expiresAt
               /\ ~TeardownPending
       /\ mission.spec.cleanupPolicy = "Retain" => ~mlast'.deleted
       /\ (CleaningUpPass /\ mission.spec.cleanupPolicy = "Retain" /\ ~TeardownPending)
            => /\ mission'.status.cleanupComplete
               /\ mission'.exists
               /\ ~mission'.deletionTimestamp]_vars

\* The controller deleted a mission whose Teardown pipeline had ended.
SelfDeletePreconditionWitness ==
    /\ mission.spec = MChains
    /\ mlast.deleted
    /\ mission.deletionTimestamp
    /\ mchains["td"] \in {"Succeeded", "Failed"}

\* A retained mission past its TTL, cleaned up and still there.
SelfDeleteRetained ==
    /\ mission.spec.cleanupPolicy = "Retain"
    /\ mission.exists
    /\ mission.status.phase = "CleaningUp"
    /\ mission.status.cleanupComplete
    /\ mlast.branch = "cleaned-up"
    /\ now > mission.status.expiresAt

\* ------------------------------------------------------------------
\* C28  Teardown launch: a Mission pass writes a Pipeline only to move a
\* referenced Teardown-tagged Pipeline from Idle to Running, with startedAt
\* set to the time of the pass, and only in a pass that finds the Mission in
\* CleaningUp; a pass that finds a CleaningUp Mission with a Teardown Pipeline
\* Idle or Running changes nothing of the Mission and asks for a requeue after
\* 5 s; Setup- and Active-tagged pipelines are never written.
\* The step is taken by the Mission controller.
ControllerStep ==
    /\ mlast'.op \in {"MissionReconcile", "MissionExpiredCleanup"}
    /\ now' = now

LaunchesTeardown ==
    \E i \in 1..Len(mission.spec.chains) :
        /\ mission.spec.chains[i].phase = "Teardown"
        /\ mchains[mission.spec.chains[i].name] = "Idle"
        /\ mchains' = [mchains EXCEPT ![mission.spec.chains[i].name] = "Running"]
        /\ mlast'.chainStartedAt = now

TeardownLaunchWaiting ==
    /\ mission.spec = MChains
    /\ mission.status.phase = "CleaningUp"
    /\ mlast.branch = "teardown-wait"
    /\ mchains["td"] = "Running"
    /\ mission.exists
    /\ now > mission.status.expiresAt

\* ------------------------------------------------------------------
\* C29  Suspended Agent: after a pass (returning no error) over an Agent with
\* spec.suspended=true that is not being deleted, its Deployment, if it
\* exists, has replica count 0, status.phase is Suspended, status.ready is
\* false and condition Available is False; such a pass, failed or not, calls
\* none of the upserts of ConfigMap, PVC and Deployment and creates none of
\* them; and a pass over an Agent that is not suspended whose Deployment
\* upsert does not fail leaves the Deployment with replica count 1.
KnightPassStep == klast'.op = "KnightReconcile"

SuspendedPass ==
    /\ KnightPassStep
    /\ knight.exists
    /\ ~knight.deletionTimestamp
    /\ knight.spec.suspended

ResumedPass ==
    /\ KnightPassStep
    /\ knight.exists
    /\ ~knight.deletionTimestamp
    /\ ~knight.spec.suspended

\* Condition Available has status False.
AvailableFalse(st) == st.available \in {"Suspended", "ReconcileError", "Provisioning"}

SuspendedAgentResumed ==
    /\ knight.exists
    /\ ~knight.spec.suspended
    /\ knight.generation = MaxKnightGeneration
    /\ klast.branch = "reconciled"
    /\ kchildren.replicas = 1
    /\ knight.status.phase = "Provisioning"

\* ------------------------------------------------------------------
\* C30  Agent status derivation: a pass over an Agent that is not suspended
\* (and not being deleted) calls the upserts of ConfigMap, PVC and Deployment
\* in that order, the later ones also after an earlier one has failed; after
\* it phase is Degraded iff one of them failed, and then the pass returns the
\* error with RequeueAfter 30 s; otherwise phase is Ready iff the Deployment
\* reports at least one ready replica, else Provisioning; and in every state
\* status.ready is true iff phase is Ready.
ReadyIffPhaseReady(k) == k.status.ready <=> k.status.phase = "Ready"

AgentStatusDerivation ==
    [][/\ ReadyIffPhaseReady(knight)
       /\ ReadyIffPhaseReady(knight')
       /\ ResumedPass
            => /\ klast'.attempted = <<"configmap", "pvc", "deployment">>
               /\ knight'.status.phase = "Degraded" <=> klast'.failed # "none"
               /\ klast'.failed = "configmap" => (kchildren'.pvc /\ kchildren'.deployment)
               /\ klast'.failed = "pvc" => (kchildren'.configMap /\ kchildren'.deployment)
               /\ klast'.failed # "none"
                    => /\ klast'.err
                       /\ klast'.requeue = 30
               /\ klast'.failed = "none"
                    => /\ knight'.status.phase = "Ready" <=> kchildren'.readyReplicas >= 1
                       /\ knight'.status.phase \in {"Ready", "Provisioning"}
                       /\ klast'.requeue = 0]_vars

\* The PVC upsert failed; the Deployment was upserted all the same and the
\* Agent is Degraded although a replica is ready.
AgentStatusDerivationWitness ==
    /\ knight.exists
    /\ knight.status.phase = "Degraded"
    /\ ~knight.status.ready
    /\ klast.failed = "pvc"
    /\ klast.requeue = 30
    /\ kchildren.configMap
    /\ kchildren.deployment
    /\ kchildren.readyReplicas >= 1

\* The Agent is Ready on a ready replica.
AgentStatusDerivationReady ==
    /\ knight.status.phase = "Ready"
    /\ knight.status.ready
    /\ klast.branch = "reconciled"
    /\ klast.failed = "none"
    /\ kchildren.readyReplicas >= 1

\* ------------------------------------------------------------------
\* C31  Fleet phase computation: after a pass that aggregates a Fleet that is
\* not suspended, with budget the cost budget of the spec and totalCost,
\* ready and total the values the pass wrote to the status (ready <= total),
\* phase is OverBudget if the budget is set (not empty, not "0") and
\* totalCost > budget; else Provisioning if total = 0; else Ready if
\* ready = total; else Degraded; and condition Available is True only for
\* Ready and has reason OverBudget when the phase is OverBudget.
\* The budgets of the model that are numbers, with their values.
BudgetNumbers == [b \in {"0", "2"} |-> IF b = "2" THEN 2 ELSE 0]

ExceedsBudget(budget, totalCost) ==
    /\ budget \notin {"", "0"}
    /\ budget \in DOMAIN BudgetNumbers
    /\ totalCost > BudgetNumbers[budget]

ExpectedFleetPhase(budget, totalCost, ready, total) ==
    IF ExceedsBudget(budget, totalCost) THEN "OverBudget"
    ELSE IF total = 0 THEN "Provisioning"
    ELSE IF ready = total THEN "Ready"
    ELSE "Degraded"

FleetAggregated == flast'.op = "FleetReconcile" /\ flast'.branch = "aggregated"

\* Condition Available has status True.
FleetAvailableTrue(st) == st.available = "AllKnightsReady"

FleetPhaseComputation ==
    [][FleetAggregated
        => /\ fleet'.status.knightsReady <= fleet'.status.knightsTotal
           /\ fleet'.status.phase =
                ExpectedFleetPhase(fleet.spec.costBudgetUSD, fleet'.status.totalCost[1],
                                   fleet'.status.knightsReady, fleet'.status.knightsTotal)
           /\ FleetAvailableTrue(fleet'.status) <=> fleet'.status.phase = "Ready"
           /\ fleet'.status.phase = "OverBudget"
                => fleet'.status.available = "OverBudget"]_vars

\* All knights of the Fleet are ready and yet it is over budget.
FleetPhaseComputationWitness ==
    /\ fleet.exists
    /\ flast.branch = "aggregated"
    /\ fleet.spec.costBudgetUSD = "2"
    /\ fleet.status.phase = "OverBudget"
    /\ fleet.status.available = "OverBudget"
    /\ fleet.status.knightsTotal >= 1
    /\ fleet.status.knightsReady = fleet.status.knightsTotal
    /\ fleet.status.totalCost[1] > 2

\* A budget of "0" counts as no budget: the Fleet is Ready at a cost above 0.
FleetPhaseZeroBudget ==
    /\ flast.branch = "aggregated"
    /\ fleet.spec.costBudgetUSD = "0"
    /\ fleet.status.phase = "Ready"
    /\ fleet.status.totalCost[1] > 0

\* Some knights are not ready and the cost is within the budget.
FleetPhaseDegraded ==
    /\ flast.branch = "aggregated"
    /\ fleet.spec.costBudgetUSD = "2"
    /\ fleet.status.phase = "Degraded"
    /\ fleet.status.knightsReady < fleet.status.knightsTotal

\* ------------------------------------------------------------------
\* C32  Cron trigger effect.  When the cron entry of an existing Pipeline that
\* is not suspended fires, the persisted status holds one step status per spec
\* step, in spec order, each Pending with retries 0 and neither output nor
\* error nor times; the phase is Running, startedAt and lastScheduledAt are
\* the time of the fire, completedAt is cleared, and runsCompleted and
\* runsFailed keep their values.  A fire for a suspended or vanished Pipeline
\* leaves the status as it was.
FreshStepStatuses(steps) ==
    [i \in 1..Len(steps) |->
        [name |-> steps[i].name, phase |-> "Pending", startedAt |-> NoTime,
         completedAt |-> NoTime, output |-> "", error |-> "", retries |-> 0]]

CronTriggerEffect ==
    [][CronFire
        => IF meta.exists /\ ~spec.suspended
           THEN /\ status'.stepStatuses = FreshStepStatuses(spec.steps)
                /\ status'.phase = "Running"
                /\ status'.startedAt = now
                /\ status'.completedAt = NoTime
                /\ status'.lastScheduledAt = now
                /\ status'.runsCompleted = status.runsCompleted
                /\ status'.runsFailed = status.runsFailed
           ELSE status' = status]_vars

\* A second fire, after a completed run: the steps are Pending again and the
\* counter of the first run is kept.
CronTriggerEffectWitness ==
    /\ meta.exists
    /\ ~spec.suspended
    /\ ChainKey \in cronEntries
    /\ status.phase = "Running"
    /\ status.runsCompleted = 1
    /\ status.lastScheduledAt = now
    /\ status.startedAt = now
    /\ now > 0
    /\ status.stepStatuses = FreshStepStatuses(spec.steps)

\* A suspended Pipeline whose cron entry is still registered, untouched by a
\* fire: it was suspended after the last reconcile.
CronFireWhileSuspended ==
    /\ meta.exists
    /\ spec.suspended
    /\ ChainKey \in cronEntries
    /\ runId >= 1
    /\ status.phase = "Idle"
    /\ status.lastScheduledAt = NoTime

\* ==================================================================
\* A Chain under every operation of its life: runs, spec edits (steps added or
\* renamed, suspension), knight deletions and deletion of the Chain.
\* ==================================================================
\* TwoStepCron with its second step renamed.
CronRenamed ==
    [TwoStepCron EXCEPT
        !.steps = <<@[1], Step("c", <<"a">>, FALSE, <<Lit("consume")>>, Galahad)>>]

StepEdits == {<<TwoStepCron, CronRenamed>>}

\* kubectl edit: a step of spec.steps is renamed (one step removed, one added).
EditSteps ==
    \E e \in StepEdits :
        /\ meta.exists
        /\ meta.generation < MaxGeneration
        /\ spec = e[1]
        /\ spec' = e[2]
        /\ meta' = [meta EXCEPT !.generation = @ + 1]
        /\ last' = Did("EditSteps")
        /\ UNCHANGED <<status, knights, bus, results, cronEntries, now, runId,
                       retriedAt, dagSteps, dagErr, kindVars>>

OpsChains == {TwoStepCron, SuspendedCron}

InitOps ==
    /\ spec \in OpsChains
    /\ meta = NewMeta
    /\ status = EmptyStatus
    /\ knights = KnightNames
    /\ bus = <<>>
    /\ results = [n \in StepNames |-> <<>>]
    /\ cronEntries = {}
    /\ now = 0
    /\ runId = 0
    /\ last = NoLast
    /\ retriedAt = [n \in StepNames |-> NoTime]
    /\ dagSteps = <<>>
    /\ dagErr = "unset"
    /\ NoOtherKinds

NextOps ==
    \/ Next
    \/ EditSuspended
    \/ DeleteKnight
    \/ DeleteChain

SpecOps == InitOps /\ [][NextOps]_vars

\* ------------------------------------------------------------------
\* C33  Cron registry.  Right after a reconcile of a Pipeline that exists and
\* whose schedule is empty or that is suspended, and right after the reconcile
\* that releases a Pipeline under deletion, no cron entry is registered for
\* the Pipeline's key; this is claimed also for a spec that fails validation.
CronRegistryCleared ==
    (/\ last.op = "Reconcile"
     /\ last.branch # "notfound"
     /\ (spec.schedule = "" \/ spec.suspended \/ last.branch = "deleting"))
        => ChainKey \notin cronEntries

\* The same, for reconciles that find the spec valid.
CronRegistryClearedWhenValid ==
    (/\ last.op = "Reconcile"
     /\ last.branch \notin {"notfound", "invalid"}
     /\ (spec.schedule = "" \/ spec.suspended \/ last.branch = "deleting"))
        => ChainKey \notin cronEntries

\* A suspended Pipeline whose knight is gone has just been reconciled and its
\* cron entry is still registered.
CronEntrySurvivesInvalid ==
    /\ last.op = "Reconcile"
    /\ last.branch = "invalid"
    /\ spec.suspended
    /\ ChainKey \in cronEntries

\* ------------------------------------------------------------------
\* C34  Suspended Pipeline.  While spec.suspended is true and the spec is
\* valid, every reconcile of the (existing, not deleted) Pipeline persists
\* phase Suspended without publishing a task or polling for a result, and a
\* cron fire leaves the status as it is: neither moves the Pipeline to Running.
SuspendedAndValid ==
    /\ meta.exists
    /\ ~meta.deletionTimestamp
    /\ spec.suspended
    /\ InvalidReason(spec, knights) = ""

SuspendedPipeline ==
    [][SuspendedAndValid
        => /\ last'.op = "Reconcile"
                => /\ last'.branch = "suspended"
                   /\ status'.phase = "Suspended"
                   /\ bus' = bus
                   /\ last'.published = {}
                   /\ last'.polled = {}
                   /\ status'.stepStatuses = status.stepStatuses
           /\ CronFire => status' = status]_vars

\* A run was suspended while a step was Running with its result waiting on
\* the subject; the reconcile that followed set phase Suspended and left the
\* step and the result alone.
SuspendedPipelineWitness ==
    /\ SuspendedAndValid
    /\ last.op = "Reconcile"
    /\ last.branch = "suspended"
    /\ status.phase = "Suspended"
    /\ \E i \in 1..Len(status.stepStatuses) :
          /\ status.stepStatuses[i].phase = "Running"
          /\ Len(results[status.stepStatuses[i].name]) > 0

\* A cron fire reached a suspended Pipeline whose entry was still registered.
SuspendedCronFire ==
    /\ SuspendedAndValid
    /\ ChainKey \in cronEntries
    /\ status.phase = "Idle"
    /\ runId >= 1

\* ------------------------------------------------------------------
\* C35  Result correlation.  A pass that completes a Running step from a
\* result message (Succeeded, Failed by the result's error, or reset for a
\* retry) consumes a message whose taskId is that of the task published for
\* the step's current attempt: the last task published for the step.
CurrentTaskId(msgs, n) ==
    LET idx == {k \in 1..Len(msgs) : msgs[k].stepName = n}
    IN  IF idx = {} THEN 0 ELSE msgs[CHOOSE k \in idx : \A j \in idx : j <= k].taskId

\* The pass of this step polled for step status i and changed it.
CompletedByResult(i) ==
    /\ last'.op = "Reconcile"
    /\ last'.branch = "running"
    /\ status.stepStatuses[i].phase = "Running"
    /\ status.stepStatuses[i].name \in last'.polled
    /\ status'.stepStatuses[i] # status.stepStatuses[i]

ResultCorrelation ==
    [][\A i \in 1..Len(status.stepStatuses) :
          CompletedByResult(i)
            => Head(results[status.stepStatuses[i].name]).taskId
                 = CurrentTaskId(bus, status.stepStatuses[i].name)]_vars

\* The second attempt of a step was completed although only the first
\* attempt's task has been answered.
StaleResultConsumed ==
    /\ last.op = "Reconcile"
    /\ \E i \in 1..Len(status.stepStatuses) :
          LET n == status.stepStatuses[i].name
          IN  /\ status.stepStatuses[i].retries = 2
              /\ status.stepStatuses[i].phase = "Pending"
              /\ Len(results[n]) = 1
              /\ results[n][1].taskId # CurrentTaskId(bus, n)

\* ==================================================================
\* A pass whose final Status().Update fails
\* ==================================================================
\* r.Status().Update returns an error (a conflict: the object was written
\* since the pass read it, or the API server failed).  Nothing of the pass's
\* status is persisted; the finalizer update, the schedule and the tasks
\* published before the write stay.
ReconcileUpdateFails ==
    \E pollHit \in SUBSET PollableNames(status, results),
       pubOK \in SUBSET PublishableNames(status) :
        \E o \in {ReconcileOutcome(meta, spec, status, knights, results, cronEntries,
                                  pollHit, pubOK, now, Len(bus) + 1)} :
            /\ o.branch \in {"suspended", "init", "running", "timeout"}
            /\ Len(bus) + Len(o.pubs) <= MaxBus
            /\ meta' = o.meta
            /\ cronEntries' = o.cron
            /\ bus' = bus \o o.pubs
            /\ last' = [op |-> "Reconcile", branch |-> "update-failed",
                        polled |-> o.polled, published |-> PublishedNames(o.pubs)]
            /\ UNCHANGED <<spec, status, knights, results, now, runId, retriedAt,
                           dagSteps, dagErr, kindVars>>

WriteChains == {OneStepRetry}

InitWrite ==
    /\ spec \in WriteChains
    /\ meta = NewMeta
    /\ status = EmptyStatus
    /\ knights = KnightNames
    /\ bus = <<>>
    /\ results = [n \in StepNames |-> <<>>]
    /\ cronEntries = {}
    /\ now = 0
    /\ runId = 0
    /\ last = NoLast
    /\ retriedAt = [n \in StepNames |-> NoTime]
    /\ dagSteps = <<>>
    /\ dagErr = "unset"
    /\ NoOtherKinds

NextWrite ==
    \/ Reconcile
    \/ ReconcileUpdateFails
    \/ ManualTrigger
    \/ ResultArrives
    \/ Tick

SpecWrite == InitWrite /\ [][NextWrite]_vars

\* ------------------------------------------------------------------
\* C36  No duplicate dispatch.  Within one run the number of task messages
\* published for a step never exceeds that step's retries + 1, also when the
\* status write at the end of a pass fails after the task was published.
\* Stated for the first run, whose tasks are all the tasks on the bus.
PublishedFor(n) == Cardinality({k \in 1..Len(bus) : bus[k].stepName = n})

NoDuplicateDispatch ==
    runId <= 1
        => \A i \in 1..Len(status.stepStatuses) :
              PublishedFor(status.stepStatuses[i].name) <= status.stepStatuses[i].retries + 1

\* Two tasks are on the bus for a step that was never retried.
DuplicateDispatch ==
    /\ runId = 1
    /\ \E i \in 1..Len(status.stepStatuses) :
          /\ status.stepStatuses[i].retries = 0
          /\ PublishedFor(status.stepStatuses[i].name) = 2

\* ------------------------------------------------------------------
\* C37  Run accounting.  Every run that was started is either still Running
\* or was counted exactly once, in RunsCompleted or in RunsFailed: the runs
\* started so far are the counted runs plus the run in progress.  In
\* particular a cron fire during a run does not discard that run uncounted,
\* and a terminal Pipeline is not counted again.
RunsCounted == status.runsCompleted + status.runsFailed

RunAccounting ==
    runId = RunsCounted + (IF status.phase = "Running" THEN 1 ELSE 0)

\* Two runs were started and the second is in progress, but no run was ever
\* counted: the cron fire replaced the step statuses of the first run.
RunDiscardedUncounted ==
    /\ runId = 2
    /\ status.phase = "Running"
    /\ RunsCounted = 0
    /\ status.lastScheduledAt = status.startedAt

\* ==================================================================
\* A run under fair requeueing and an advancing clock
\* ==================================================================
\* A pass that returns an error or RequeueAfter is run again by the work
\* queue, and the clock advances (up to the horizon of the model).
ChainFairness == WF_vars(Reconcile) /\ WF_vars(Tick)

RunChains == {OneStepRetry}

InitRun ==
    /\ spec \in RunChains
    /\ meta = NewMeta
    /\ status = EmptyStatus
    /\ knights = KnightNames
    /\ bus = <<>>
    /\ results = [n \in StepNames |-> <<>>]
    /\ cronEntries = {}
    /\ now = 0
    /\ runId = 0
    /\ last = NoLast
    /\ retriedAt = [n \in StepNames |-> NoTime]
    /\ dagSteps = <<>>
    /\ dagErr = "unset"
    /\ NoOtherKinds

NextRun ==
    \/ Reconcile
    \/ ManualTrigger
    \/ ResultArrives
    \/ Tick
    \/ DeleteKnight

SpecRunFair == InitRun /\ [][NextRun]_vars /\ ChainFairness

\* ------------------------------------------------------------------
\* C38  Run liveness.  Under fair requeueing and an advancing clock, every
\* Pipeline in phase Running with startedAt set reaches Succeeded or Failed,
\* whatever happens to results, publishes and the referenced knights.  Stated
\* for the runs whose overall timeout lies within the horizon of the clock.
RunInTime ==
    /\ meta.exists
    /\ status.phase = "Running"
    /\ status.startedAt # NoTime
    /\ status.startedAt + spec.timeout < MaxTime

RunEnded == status.phase \in {"Succeeded", "Failed"}

RunLiveness == RunInTime ~> RunEnded

\* The run is past its overall timeout, the knight of its step is gone, and
\* the pass that just ran stopped at the validation and left it Running.
RunStuckInvalid ==
    /\ status.phase = "Running"
    /\ status.startedAt # NoTime
    /\ now - status.startedAt > spec.timeout
    /\ last.op = "Reconcile"
    /\ last.branch = "invalid"
    /\ knights = {}

\* ==================================================================
\* A scheduled Chain whose steps are edited during its life
\* ==================================================================
InitSteps ==
    /\ spec = TwoStepCron
    /\ meta = NewMeta
    /\ status = EmptyStatus
    /\ knights = KnightNames
    /\ bus = <<>>
    /\ results = [n \in StepNames |-> <<>>]
    /\ cronEntries = {}
    /\ now = 0
    /\ runId = 0
    /\ last = NoLast
    /\ retriedAt = [n \in StepNames |-> NoTime]
    /\ dagSteps = <<>>
    /\ dagErr = "unset"
    /\ NoOtherKinds

NextSteps ==
    \/ Next
    \/ EditSteps

SpecSteps == InitSteps /\ [][NextSteps]_vars

\* ------------------------------------------------------------------
\* C39  Step-status alignment.  Whenever the execution pass has run, the step
\* statuses hold exactly one entry for every step of the current spec, under
\* the same names, and the pass did not dereference a missing step status.
ExecutionPassRan ==
    /\ last.op = "Reconcile"
    /\ last.branch \in {"running", "timeout", "panic"}

StepStatusAlignment ==
    ExecutionPassRan
        => /\ Len(status.stepStatuses) = Len(spec.steps)
           /\ NamesOf(status.stepStatuses) = NamesOf(spec.steps)
           /\ last.branch # "panic"

\* The pass dereferenced the missing status of the renamed step, after it had
\* published the task of the step before it.
StepStatusMissing ==
    /\ last.op = "Reconcile"
    /\ last.branch = "panic"
    /\ last.published # {}
    /\ NamesOf(spec.steps) \ NamesOf(status.stepStatuses) # {}
    /\ status.lastScheduledAt = NoTime

\* ==================================================================
\* Suspension and resumption under fair requeueing
\* ==================================================================
\* OneStepRetry, created suspended.
SuspendedRetry == [OneStepRetry EXCEPT !.suspended = TRUE]

ResumeChains == {TwoStepCron, SuspendedCron, SuspendedRetry}

InitResume ==
    /\ spec \in ResumeChains
    /\ meta = NewMeta
    /\ status = EmptyStatus
    /\ knights = KnightNames
    /\ bus = <<>>
    /\ results = [n \in StepNames |-> <<>>]
    /\ cronEntries = {}
    /\ now = 0
    /\ runId = 0
    /\ last = NoLast
    /\ retriedAt = [n \in StepNames |-> NoTime]
    /\ dagSteps = <<>>
    /\ dagErr = "unset"
    /\ NoOtherKinds

NextResume ==
    \/ Next
    \/ EditSuspended

\* The Chain is reconciled again after every change of its spec and after
\* every pass that returns an error or RequeueAfter.
SpecResumeFair == InitResume /\ [][NextResume]_vars /\ WF_vars(Reconcile)

\* ------------------------------------------------------------------
\* C40  Resume after suspension.  Once spec.suspended of a Pipeline in phase
\* Suspended is false again, reconciliation moves the phase out of Suspended.
Resumed ==
    /\ meta.exists
    /\ ~meta.deletionTimestamp
    /\ ~spec.suspended
    /\ status.phase = "Suspended"

ResumeAfterSuspension ==
    Resumed ~> (status.phase # "Suspended" \/ spec.suspended \/ ~meta.exists)

\* A resumed Pipeline without a schedule has just been reconciled and is
\* still in phase Suspended.
ResumedStaysSuspended ==
    /\ Resumed
    /\ spec.schedule = ""
    /\ last.op = "Reconcile"
    /\ last.branch = "noop"
    /\ status.observedGeneration < meta.generation

====
